---- MODULE Spec2Model ----
(***************************************************************************)
(* Model of the SharePoint upload action (sta-sharepoint-upload.js) and of *)
(* the three retry executors of the repository:                            *)
(*   retryUploadOperation   (sta-sharepoint-upload.js)                     *)
(*   retryDownloadOperation (sta-import-zip.js)                            *)
(*   retryHttpOperation     (sta-da-helper.js, preview/publish helper)     *)
(*                                                                         *)
(* Two specifications share the module:                                    *)
(*   SpecRetry  one call of a retry executor, the operation's outcomes     *)
(*              chosen by the environment at every invocation;             *)
(*   Spec       a sync run (scan, folder creation, upload, report) against *)
(*              a remote drive, followed by a second run of the action.    *)
(***************************************************************************)
EXTENDS Integers, Sequences, FiniteSets, TLC

(***************************************************************************)
(* Bounds of the model.                                                    *)
(***************************************************************************)
\* largest maxRetries argument handed to an executor
MaxRetries == 3

(***************************************************************************)
(* Retry-After header values.  A header is what response.headers.get       *)
(* returns: null (absent), the empty string, a decimal number text, an     *)
(* HTTP-date text, or some other text.  A number text carries its value in *)
(* units of 1/10 ms ("5" is 50000, "1.5" is 15000, "0.0004" is 4); a date  *)
(* text carries the epoch milliseconds Date.parse gives for it.            *)
(***************************************************************************)
HeaderAbsent == [kind |-> "absent", v |-> 0]

HeaderEmpty == [kind |-> "empty", v |-> 0]

HeaderGarbage == [kind |-> "garbage", v |-> 0]

HeaderNumber(tenthMs) == [kind |-> "number", v |-> tenthMs]

HeaderDate(at) == [kind |-> "date", v |-> at]

\* the text "5"
HeaderFive == HeaderNumber(50000)

\* values Date.now() may return, and the instants the date headers name
Times == {10000, 20000}

DateInstants == {10000, 13000, 25000}

NumberTexts == {50000, 15000, 0, -10000, 4}

Headers ==
    {HeaderAbsent, HeaderEmpty, HeaderGarbage}
        \cup {HeaderNumber(n) : n \in NumberTexts}
        \cup {HeaderDate(d) : d \in DateInstants}

(***************************************************************************)
(* JavaScript number parsing on a header text.                             *)
(***************************************************************************)
\* Number.isNaN(parseFloat(text)): only a text that starts with a number parses
ParseFloatIsNaN(h) == h.kind # "number"

\* Math.round(parseFloat(text) * 1000): round half up, in milliseconds
RoundParseFloatMillis(h) == (h.v + 5) \div 10

\* Number.isNaN(parseInt(text, 10))
ParseIntIsNaN(h) == h.kind # "number"

\* parseInt(text, 10) * 1000: the integer part, truncated toward zero
ParseIntMillis(h) ==
    IF h.v >= 0 THEN (h.v \div 10000) * 1000 ELSE 0 - (((0 - h.v) \div 10000) * 1000)

\* Number.isNaN(Date.parse(text))
DateParseIsNaN(h) == h.kind # "date"

DateParse(h) == h.v

Max(a, b) == IF a >= b THEN a ELSE b

\* 2 ** n
RECURSIVE Pow2(_)
Pow2(n) == IF n = 0 THEN 1 ELSE 2 * Pow2(n - 1)

(***************************************************************************)
(* A delay that may be null.                                               *)
(***************************************************************************)
Null == [isNull |-> TRUE, ms |-> 0]

Millis(m) == [isNull |-> FALSE, ms |-> m]

\* the bug: a delay that is not positive is returned instead of null
getRetryAfterDelay_KeepsNonPositive(retryAfter, now) ==
    IF retryAfter.kind \in {"absent", "empty"} THEN Null
    ELSE IF ~ParseFloatIsNaN(retryAfter) THEN Millis(RoundParseFloatMillis(retryAfter))
    ELSE IF DateParseIsNaN(retryAfter) THEN Null
    ELSE Millis(Max(0, DateParse(retryAfter) - now))

\* getRetryAfterDelay of the upload and of the download action (same body)
getRetryAfterDelay(retryAfter, now) ==
    IF retryAfter.kind \in {"absent", "empty"} THEN Null
    ELSE IF ~ParseFloatIsNaN(retryAfter)
         THEN (IF RoundParseFloatMillis(retryAfter) > 0
               THEN Millis(RoundParseFloatMillis(retryAfter)) ELSE Null)
    ELSE IF DateParseIsNaN(retryAfter) THEN Null
    ELSE IF Max(0, DateParse(retryAfter) - now) > 0
         THEN Millis(Max(0, DateParse(retryAfter) - now)) ELSE Null

(***************************************************************************)
(* Outcomes of one invocation of the operation handed to an executor.      *)
(*   kind "ok"        the operation resolved (for retryHttpOperation: a    *)
(*                    response with ok = true)                             *)
(*   kind "response"  retryHttpOperation only: a response with ok = false  *)
(*   kind "throw"     the operation threw an error object                  *)
(* An error has a name, possibly a response (status and Retry-After), and  *)
(* a message, abstracted to what the executors look for in it:             *)
(*   "fetch failed"     the message includes 'fetch failed'                *)
(*   "Graph API error"  the message includes 'Graph API error <code>'      *)
(*   "digits"           the message includes the digits of <code>          *)
(*   "plain"            none of these                                      *)
(* seq is the ordinal of the invocation that produced the outcome.         *)
(***************************************************************************)
TestStatuses == {404, 423, 429, 500, 503, 520}

NoMessage == [text |-> "plain", code |-> 0]

Message(text, code) == [text |-> text, code |-> code]

MessageIncludesFetchFailed(m) == m.text = "fetch failed"

MessageIncludesGraphApiError(m, status) == m.text = "Graph API error" /\ m.code = status

MessageIncludesDigits(m, status) ==
    m.text \in {"Graph API error", "digits"} /\ m.code = status

Outcome(kind, name, hasResponse, status, retryAfter, message) ==
    [kind |-> kind, name |-> name, hasResponse |-> hasResponse, status |-> status,
     retryAfter |-> retryAfter, message |-> message, seq |-> 0]

OkOutcome == Outcome("ok", "-", FALSE, 200, HeaderAbsent, NoMessage)

NoOutcome == Outcome("none", "-", FALSE, 0, HeaderAbsent, NoMessage)

\* graphFetch: throw new GraphApiError(`Graph API error ${res.status}: ...`, res)
GraphApiError(status, retryAfter) ==
    Outcome("throw", "GraphApiError", TRUE, status, retryAfter,
            Message("Graph API error", status))

\* fetchZip: throw new HttpError(`... ${response.status} ${response.statusText}`, response)
HttpError(status, retryAfter) ==
    Outcome("throw", "HttpError", TRUE, status, retryAfter, Message("digits", status))

\* an error object without a response
PlainError(name, message) == Outcome("throw", name, FALSE, 0, HeaderAbsent, message)

\* fetch rejects with TypeError('fetch failed') on a network failure
FetchFailed == PlainError("TypeError", Message("fetch failed", 0))

\* a response of fetch with ok = false
FailedResponse(status, retryAfter) ==
    Outcome("response", "-", TRUE, status, retryAfter, NoMessage)

ErrorMessages(texts) ==
    {NoMessage, Message("fetch failed", 0)}
        \cup {Message(t, s) : t \in texts, s \in TestStatuses}

Executors == {"upload", "download", "http"}

\* what the operation of each executor can do when it is invoked
Outcomes(executor) ==
    CASE executor = "upload" ->
            {OkOutcome}
                \cup {GraphApiError(s, h) : s \in TestStatuses, h \in Headers}
                \cup {PlainError("Error", m) : m \in ErrorMessages({"Graph API error"})}
                \cup {PlainError("TypeError", m) : m \in {NoMessage, Message("fetch failed", 0)}}
      [] executor = "download" ->
            {OkOutcome}
                \cup {HttpError(s, h) : s \in TestStatuses, h \in Headers}
                \cup {PlainError("Error", m) : m \in ErrorMessages({"digits"})}
                \cup {PlainError("TypeError", m) : m \in {NoMessage, Message("fetch failed", 0)}}
      [] executor = "http" ->
            {OkOutcome}
                \cup {FailedResponse(s, h) : s \in TestStatuses, h \in Headers}
                \cup {PlainError("Error", NoMessage), FetchFailed}

(***************************************************************************)
(* State.                                                                  *)
(***************************************************************************)
VARIABLES
    \* ---- one call of a retry executor
    exec,          \* which executor is running: "upload", "download", "http"
    env,           \* process.env.STA_*_MAX_RETRIES, and whether the caller passed maxRetries
    maxRetries,    \* its maxRetries argument
    attempt,       \* the loop variable
    rpc,           \* "idle", "call", "sleep", "returned", "thrown"
    lastError,     \* the variable lastError (NoOutcome while undefined)
    surfaced,      \* what the call returned or threw
    waitTime,      \* the delay of the last sleep, in ms
    \* ---- what the environment did, recorded for the properties
    invocations,   \* how many times the operation has been invoked
    sleeps,        \* how many backoff sleeps have been started
    lastOutcome,   \* the outcome of the latest invocation
    priorStatus,   \* every failed invocation before the latest carried a retryable status
    clock,         \* the value Date.now() returned when the latest delay was computed
    \* ---- the upload action (one process per run)
    pc,            \* position of run(): "start", "walk", "create", "query",
                   \*   "folderDelay", "upload", "uploadDelay", "done" ("off": not running)
    tree,          \* the local directory tree below docsDir
    docsDirExists, \* fs.existsSync(docsDir)
    sourceStructure, \* the global sourceStructure
    uploadReport,  \* the global uploadReport
    outputs,       \* the core.setOutput calls made so far, in order
    folderMap,     \* folderMap of createFoldersIfNecessary
    walk,          \* its loop position: folder, segment, currentPath, parentId
    fileIdx,       \* index of the file uploadFiles is at
    streams,       \* how many read streams fs.createReadStream has opened
    inflight,      \* the remote request awaiting its response
    \* ---- the remote drive and the record of the run
    remote,        \* the items of the drive
    nextId,        \* the next item id the drive hands out
    faults,        \* remote faults injected so far
    log,           \* the remote requests of this run and their answers, in order
    adopted,       \* folder paths resolved by the conflict query in this run
    aborted,       \* "no", or where the run threw: "scan", "folders"
    run,           \* 1 for the first run of the action, 2 for the second
    first,         \* what the first run left behind
    \* ---- the AEM helper action (one process per run)
    aemPc,         \* position of run(): "start", "token", "loop", "done" ("off": not running)
    operation,     \* core.getInput('operation')
    input,         \* the inputs pages and context
    accessToken,   \* what getAccessTokenWithFallback returned
    pageReport,    \* the report of doPreviewPublish / deletePreviewPublish
    loopAt,        \* the loops' position: action and page (0: not entered)
    aemOutputs,    \* the core.setOutput calls made so far, in order
    aemLog,        \* the requests sent to the admin API, in order
    tokenPromise   \* the promise of doFetchAccessToken: "none", "pending", "fulfilled", "rejected"

retryVars ==
    <<exec, env, maxRetries, attempt, rpc, lastError, surfaced, waitTime,
      invocations, sleeps, lastOutcome, priorStatus, clock>>

syncVars ==
    <<pc, tree, docsDirExists, sourceStructure, uploadReport, outputs, folderMap,
      walk, fileIdx, streams, inflight, remote, nextId, faults, log, adopted, aborted, run, first>>

aemVars ==
    <<aemPc, operation, input, accessToken, pageReport, loopAt, aemOutputs, aemLog, tokenPromise>>

vars == <<retryVars, syncVars, aemVars>>

(***************************************************************************)
(* The retry executors.                                                    *)
(***************************************************************************)
UPLOAD_BASE_DELAY == 1000

DOWNLOAD_BASE_DELAY == 2000

HTTP_BASE_DELAY == 1000

\* the bug: one status list shared by the three executors
retryableStatuses_Shared(executor) == {429, 500, 502, 503, 504}

\* const retryableStatuses of each executor
retryableStatuses(executor) ==
    CASE executor = "upload" -> {429, 500, 502, 503, 504}
      [] executor = "download" -> {429, 502, 503, 504, 520, 521, 522, 523, 524}
      [] executor = "http" -> {429, 500, 502, 503, 504}

\* the bug: every Graph API error is retried, whatever its status
isRetryableUpload_AnyGraphError(error) ==
    IF error.name = "GraphApiError" /\ error.hasResponse
    THEN TRUE
    ELSE IF MessageIncludesFetchFailed(error.message) THEN TRUE
    ELSE \E status \in {429, 500, 502, 503, 504} :
            MessageIncludesGraphApiError(error.message, status)

\* retryUploadOperation, the catch block's classification
isRetryableUpload(error) ==
    IF error.name = "GraphApiError" /\ error.hasResponse
    THEN error.status \in retryableStatuses("upload")
    ELSE IF MessageIncludesFetchFailed(error.message) THEN TRUE
    ELSE \E status \in retryableStatuses("upload") :
            MessageIncludesGraphApiError(error.message, status)

retryAfterDelayUpload(error, now) ==
    IF error.name = "GraphApiError" /\ error.hasResponse
          /\ error.status \in retryableStatuses("upload")
    THEN getRetryAfterDelay(error.retryAfter, now)
    ELSE Null

\* the bug: the legacy branch retries every remaining error
isRetryableDownload_AllErrors(error) ==
    IF error.name = "TypeError" THEN TRUE
    ELSE IF error.name = "HttpError" /\ error.hasResponse
    THEN error.status \in {429, 502, 503, 504, 520, 521, 522, 523, 524}
    ELSE TRUE

\* retryDownloadOperation, the catch block's classification
isRetryableDownload(error) ==
    IF error.name = "TypeError" THEN TRUE
    ELSE IF error.name = "HttpError" /\ error.hasResponse
    THEN error.status \in retryableStatuses("download")
    ELSE \E status \in retryableStatuses("download") :
            MessageIncludesDigits(error.message, status)

retryAfterDelayDownload(error, now) ==
    IF error.name # "TypeError" /\ error.name = "HttpError" /\ error.hasResponse
          /\ error.status \in retryableStatuses("download")
    THEN getRetryAfterDelay(error.retryAfter, now)
    ELSE Null

\* the bug: the Retry-After delay is computed and then not used
backoffWaitTime_IgnoresHeader(retryAfterDelay, baseDelay, n) == baseDelay * Pow2(n)

\* waitTime of retryUploadOperation and retryDownloadOperation
backoffWaitTime(retryAfterDelay, baseDelay, n) ==
    IF ~retryAfterDelay.isNull THEN retryAfterDelay.ms ELSE baseDelay * Pow2(n)

\* waitTime of retryHttpOperation after a response with a retryable status
httpWaitTime(retryAfter, n) ==
    IF retryAfter.kind \in {"absent", "empty"} THEN Pow2(n) * HTTP_BASE_DELAY
    ELSE IF ~ParseIntIsNaN(retryAfter) /\ ParseIntMillis(retryAfter) > 0
         THEN ParseIntMillis(retryAfter)
    ELSE Pow2(n) * HTTP_BASE_DELAY

\* The failure carries an HTTP status: on its response, or else in its message.
CarriesStatus(o, status) ==
    /\ o.kind \in {"throw", "response"}
    /\ IF o.hasResponse THEN o.status = status
       ELSE MessageIncludesDigits(o.message, status)

CarriesRetryableStatus(executor, o) ==
    \E status \in retryableStatuses(executor) : CarriesStatus(o, status)

Stamp(o) == [o EXCEPT !.seq = invocations + 1]

\* bookkeeping of one invocation of the operation
Invoked(o, now) ==
    /\ invocations' = invocations + 1
    /\ lastOutcome' = Stamp(o)
    /\ priorStatus' = (priorStatus /\ (invocations = 0 \/ CarriesRetryableStatus(exec, lastOutcome)))
    /\ clock' = now

\* return result
Return(o) ==
    /\ rpc' = "returned"
    /\ surfaced' = Stamp(o)
    /\ UNCHANGED <<attempt, waitTime, sleeps>>

\* break; throw lastError || new Error(...)
GenericError == PlainError("Error", NoMessage)

\* the bug: a generic error replaces the operation's own
thrownAfterLoop_Generic(error) == GenericError

thrownAfterLoop(error) == IF error.kind = "none" THEN GenericError ELSE error

Break(error) ==
    /\ rpc' = "thrown"
    /\ surfaced' = thrownAfterLoop(error)
    /\ UNCHANGED <<attempt, waitTime, sleeps>>

\* await sleep(ms)
Sleep(ms) ==
    /\ rpc' = "sleep"
    /\ waitTime' = ms
    /\ sleeps' = sleeps + 1
    /\ UNCHANGED <<attempt, surfaced>>

\* the bug: the executor sleeps after the final attempt too
hasAttemptsLeft_Always(n, max) == TRUE

\* the bug: the last permitted retry is never made
hasAttemptsLeft_OffByOne(n, max) == n + 1 < max

\* attempt < maxRetries: another attempt may follow this one
hasAttemptsLeft(n, max) == n < max

\* the bug: the loop variable is not advanced
nextAttempt_Stuck(n) == n

\* attempt += 1
nextAttempt(n) == n + 1

\* one iteration of the loop of retryUploadOperation, the operation doing o
UploadIteration(o, now) ==
    /\ Invoked(o, now)
    /\ IF o.kind = "ok"
       THEN Return(o) /\ UNCHANGED lastError
       ELSE /\ lastError' = Stamp(o)
            /\ IF hasAttemptsLeft(attempt, maxRetries) /\ isRetryableUpload(o)
               THEN Sleep(backoffWaitTime(retryAfterDelayUpload(o, now),
                                          UPLOAD_BASE_DELAY, attempt))
               ELSE Break(Stamp(o))

\* one iteration of the loop of retryDownloadOperation
DownloadIteration(o, now) ==
    /\ Invoked(o, now)
    /\ IF o.kind = "ok"
       THEN Return(o) /\ UNCHANGED lastError
       ELSE /\ lastError' = Stamp(o)
            /\ IF hasAttemptsLeft(attempt, maxRetries) /\ isRetryableDownload(o)
               THEN Sleep(backoffWaitTime(retryAfterDelayDownload(o, now),
                                          DOWNLOAD_BASE_DELAY, attempt))
               ELSE Break(Stamp(o))

\* one iteration of the loop of retryHttpOperation
HttpIteration(o, now) ==
    /\ Invoked(o, now)
    /\ IF o.kind \in {"ok", "response"}
       THEN /\ UNCHANGED lastError
            /\ IF o.kind = "ok" \/ o.status \notin retryableStatuses("http")
               THEN Return(o)
               ELSE IF hasAttemptsLeft(attempt, maxRetries)
                    THEN Sleep(httpWaitTime(o.retryAfter, attempt))
                    ELSE Return(o)
       ELSE /\ lastError' = Stamp(o)
            /\ IF hasAttemptsLeft(attempt, maxRetries)
               THEN Sleep(Pow2(attempt) * HTTP_BASE_DELAY)
               ELSE Break(Stamp(o))

(***************************************************************************)
(* SpecRetry: one call of an executor.                                     *)
(***************************************************************************)
\* an environment variable: unset, or the text of a non-negative integer
EnvUnset == [set |-> FALSE, n |-> 0]

EnvValues == {EnvUnset} \cup {[set |-> TRUE, n |-> v] : v \in 0 .. MaxRetries}

\* parseInt(v, 10) || fallback: NaN and 0 are falsy
parseIntOr(v, fallback) == IF v.set /\ v.n # 0 THEN v.n ELSE fallback

\* const UPLOAD_MAX_RETRIES, const DOWNLOAD_MAX_RETRIES under the environment v
defaultMaxRetries(executor, v) ==
    IF executor = "upload" THEN parseIntOr(v, 2) ELSE parseIntOr(v, 3)

RetryInitFor(executor, e, n) ==
    /\ exec = executor
    /\ env = e
    /\ maxRetries = n
    /\ attempt = 0
    /\ rpc = "call"
    /\ lastError = NoOutcome
    /\ surfaced = NoOutcome
    /\ waitTime = 0
    /\ invocations = 0
    /\ sleeps = 0
    /\ lastOutcome = NoOutcome
    /\ priorStatus = TRUE
    /\ clock = 0

\* the AEM helper action is not running
AemOff ==
    /\ aemPc = "off"
    /\ operation = ""
    /\ input = [pages |-> <<>>, pagesOk |-> TRUE, contextOk |-> TRUE]
    /\ accessToken = ""
    /\ pageReport = [successes |-> 0, failures |-> 0,
                     failureList |-> [preview |-> <<>>, publish |-> <<>>]]
    /\ loopAt = [action |-> 0, page |-> 0]
    /\ aemOutputs = <<>>
    /\ aemLog = <<>>
    /\ tokenPromise = "none"

\* the upload action is not running
SyncOff ==
    /\ pc = "off"
    /\ tree = {}
    /\ docsDirExists = FALSE
    /\ sourceStructure = [folders |-> <<>>, files |-> <<>>]
    /\ uploadReport = [uploads |-> 0, uploadList |-> <<>>, failures |-> 0,
                       failedList |-> <<>>, failedFolderCreations |-> 0, lockedFiles |-> 0]
    /\ outputs = <<>>
    /\ folderMap = <<>>
    /\ walk = [folder |-> 0, segment |-> 0, currentPath |-> "", parentId |-> 0]
    /\ fileIdx = 0
    /\ streams = 0
    /\ inflight = [kind |-> "none"]
    /\ remote = {}
    /\ nextId = 0
    /\ faults = 0
    /\ log = <<>>
    /\ adopted = {}
    /\ aborted = "no"
    /\ run = 0
    /\ first = [done |-> FALSE, remote |-> {}, clean |-> FALSE, faults |-> 0]

InitRetry ==
    /\ \/ \E executor \in Executors, n \in (0 - 1) .. MaxRetries :
              RetryInitFor(executor, [value |-> EnvUnset, passed |-> TRUE], n)
       \/ \E executor \in {"upload", "download"}, v \in EnvValues :
              RetryInitFor(executor, [value |-> v, passed |-> FALSE],
                           defaultMaxRetries(executor, v))
    /\ SyncOff
    /\ AemOff

retryUploadOperation ==
    /\ exec = "upload" /\ rpc = "call" /\ attempt <= maxRetries
    /\ \E o \in Outcomes("upload"), now \in Times : UploadIteration(o, now)
    /\ UNCHANGED <<exec, env, maxRetries>>
    /\ UNCHANGED syncVars
    /\ UNCHANGED aemVars

retryDownloadOperation ==
    /\ exec = "download" /\ rpc = "call" /\ attempt <= maxRetries
    /\ \E o \in Outcomes("download"), now \in Times : DownloadIteration(o, now)
    /\ UNCHANGED <<exec, env, maxRetries>>
    /\ UNCHANGED syncVars
    /\ UNCHANGED aemVars

retryHttpOperation ==
    /\ exec = "http" /\ rpc = "call" /\ attempt <= maxRetries
    /\ \E o \in Outcomes("http"), now \in Times : HttpIteration(o, now)
    /\ UNCHANGED <<exec, env, maxRetries>>
    /\ UNCHANGED syncVars
    /\ UNCHANGED aemVars

\* the sleep is over: attempt += 1 and the loop goes round
sleepDone ==
    /\ rpc = "sleep"
    /\ attempt' = nextAttempt(attempt)
    /\ rpc' = "call"
    /\ UNCHANGED <<exec, env, maxRetries, lastError, surfaced, waitTime,
                   invocations, sleeps, lastOutcome, priorStatus, clock>>
    /\ UNCHANGED syncVars
    /\ UNCHANGED aemVars

\* the loop condition attempt <= maxRetries fails: the statement after the loop
loopExit ==
    /\ rpc = "call" /\ attempt > maxRetries
    /\ Break(lastError)
    /\ UNCHANGED <<exec, env, maxRetries, lastError, invocations, lastOutcome, priorStatus, clock>>
    /\ UNCHANGED syncVars
    /\ UNCHANGED aemVars

NextRetry ==
    \/ retryUploadOperation
    \/ retryDownloadOperation
    \/ retryHttpOperation
    \/ sleepDone
    \/ loopExit

SpecRetry == InitRetry /\ [][NextRetry]_vars

(***************************************************************************)
(* The local tree.  An entry is a path below docsDir (a sequence of names) *)
(* and a kind; every entry below the top level lies in a directory.        *)
(***************************************************************************)
\* most entries a tree has
MaxEntries == 3

\* the names entries have, in the order readdirSync lists them
NameOrder == <<"a", "b">>

EntryKinds == {"dir", "file", "other"}

Front(q) == SubSeq(q, 1, Len(q) - 1)

RECURSIVE PathsUpTo(_)
PathsUpTo(depth) ==
    IF depth = 0 THEN {<<>>}
    ELSE PathsUpTo(depth - 1)
            \cup {Append(q, NameOrder[i]) : q \in PathsUpTo(depth - 1), i \in 1 .. Len(NameOrder)}

Entries == [path : PathsUpTo(MaxEntries) \ {<<>>}, kind : EntryKinds]

\* the entries that can be added to a tree: a new path at the top level or in a directory
Addable(t) ==
    {e \in Entries :
        /\ \A f \in t : f.path # e.path
        /\ Len(e.path) > 1 => [path |-> Front(e.path), kind |-> "dir"] \in t}

RECURSIVE TreesUpTo(_)
TreesUpTo(n) ==
    IF n = 0 THEN {{}}
    ELSE TreesUpTo(n - 1)
            \cup UNION {{t \cup {e} : e \in Addable(t)} : t \in TreesUpTo(n - 1)}

\* a directory with a file and a subdirectory with a file
ExampleTree ==
    {[path |-> <<"a">>, kind |-> "dir"], [path |-> <<"a", "a">>, kind |-> "file"],
     [path |-> <<"a", "b">>, kind |-> "dir"], [path |-> <<"a", "b", "a">>, kind |-> "file"]}

Trees == TreesUpTo(MaxEntries) \cup {ExampleTree}

\* docsDir = `${zipContentsPath}/docx`, as path segments
DocsDir == <<"zip", "docx">>

IsPrefix(pre, q) == Len(pre) <= Len(q) /\ SubSeq(q, 1, Len(pre)) = pre

\* fs.readdirSync(srcFolder, { withFileTypes: true })
readdirSync(t, srcFolder) ==
    LET rel == SubSeq(srcFolder, Len(DocsDir) + 1, Len(srcFolder))
        present(i) == \E e \in t : e.path = Append(rel, NameOrder[i])
        entryAt(i) == CHOOSE e \in t : e.path = Append(rel, NameOrder[i])
        RECURSIVE list(_)
        list(i) ==
            IF i > Len(NameOrder) THEN <<>>
            ELSE IF present(i)
                 THEN <<[name |-> NameOrder[i], kind |-> entryAt(i).kind]>> \o list(i + 1)
                 ELSE list(i + 1)
    IN list(1)

\* the bug: a directory without entries is not recorded
RECURSIVE populateEntries_SkipsEmpty(_, _, _, _)
populateEntries_SkipsEmpty(t, srcFolder, entries, st) ==
    IF entries = <<>> THEN st
    ELSE LET entry == Head(entries)
             fullPath == Append(srcFolder, entry.name)
             item == [name |-> entry.name, path |-> fullPath]
         IN IF entry.kind = "dir"
            THEN populateEntries_SkipsEmpty(t, srcFolder, Tail(entries),
                    populateEntries_SkipsEmpty(t, fullPath, readdirSync(t, fullPath),
                        IF readdirSync(t, fullPath) = <<>> THEN st
                        ELSE [st EXCEPT !.folders = Append(@, item)]))
            ELSE IF entry.kind = "file"
            THEN populateEntries_SkipsEmpty(t, srcFolder, Tail(entries),
                                            [st EXCEPT !.files = Append(@, item)])
            ELSE populateEntries_SkipsEmpty(t, srcFolder, Tail(entries), st)

\* the bug: a directory is recorded after its subtree
RECURSIVE populateEntries_PostOrder(_, _, _, _)
populateEntries_PostOrder(t, srcFolder, entries, st) ==
    IF entries = <<>> THEN st
    ELSE LET entry == Head(entries)
             fullPath == Append(srcFolder, entry.name)
             item == [name |-> entry.name, path |-> fullPath]
             below == populateEntries_PostOrder(t, fullPath, readdirSync(t, fullPath), st)
         IN IF entry.kind = "dir"
            THEN populateEntries_PostOrder(t, srcFolder, Tail(entries),
                                           [below EXCEPT !.folders = Append(@, item)])
            ELSE IF entry.kind = "file"
            THEN populateEntries_PostOrder(t, srcFolder, Tail(entries),
                                           [st EXCEPT !.files = Append(@, item)])
            ELSE populateEntries_PostOrder(t, srcFolder, Tail(entries), st)

\* populateSourceStructure, the loop over entries: pushes onto the structure st
RECURSIVE populateEntries(_, _, _, _)
populateEntries(t, srcFolder, entries, st) ==
    IF entries = <<>> THEN st
    ELSE LET entry == Head(entries)
             fullPath == Append(srcFolder, entry.name)
             item == [name |-> entry.name, path |-> fullPath]
         IN IF entry.kind = "dir"
            THEN populateEntries(t, srcFolder, Tail(entries),
                    populateEntries(t, fullPath, readdirSync(t, fullPath),
                        [st EXCEPT !.folders = Append(@, item)]))
            ELSE IF entry.kind = "file"
            THEN populateEntries(t, srcFolder, Tail(entries),
                                 [st EXCEPT !.files = Append(@, item)])
            ELSE populateEntries(t, srcFolder, Tail(entries), st)

\* the bug: entries that are neither file nor directory do not count
noUploadItems_CountsUsable(entries, isTopLevel) ==
    isTopLevel /\ \A i \in 1 .. Len(entries) : entries[i].kind = "other"

\* populateSourceStructure: isTopLevel && entries.length === 0
noUploadItems(entries, isTopLevel) == isTopLevel /\ Len(entries) = 0

populateSourceStructure(t, srcFolder, st) ==
    populateEntries(t, srcFolder, readdirSync(t, srcFolder), st)

\* path.replace(docsDir, '').split('/'): "/a/b" splits into "", "a", "b"
relativeSegments(path) ==
    IF IsPrefix(DocsDir, path)
    THEN <<"">> \o SubSeq(path, Len(DocsDir) + 1, Len(path))
    ELSE path

\* sourceStructure.folders.map(...) and sourceStructure.files.map(...) of run
sourceFolders(st) ==
    [i \in 1 .. Len(st.folders) |->
        [name |-> st.folders[i].name, path |-> relativeSegments(st.folders[i].path)]]

sourceFiles(st) ==
    [i \in 1 .. Len(st.files) |->
        [name |-> st.files[i].name, path |-> st.files[i].path,
         relative |-> relativeSegments(st.files[i].path)]]

\* currentPath = currentPath ? `${currentPath}/${segment}` : segment
joinPath(currentPath, segment) ==
    IF currentPath = "" THEN segment ELSE currentPath \o "/" \o segment

\* the value of currentPath after the segments q have been walked
RECURSIVE keyOf(_)
keyOf(q) == IF q = <<>> THEN "" ELSE joinPath(keyOf(Front(q)), q[Len(q)])

(***************************************************************************)
(* The remote drive.  An item has an id, a parent id, a name and a kind;   *)
(* the destination root folder is the item FolderId.                       *)
(***************************************************************************)
\* most requests the remote answers with a fault over the two runs; a request
\* the retry executor sends again after a fault may meet the same fault again
MaxFaults == 2

FolderId == 0

NoRequest == [kind |-> "none"]

\* POST /drives/{driveId}/items/{parentId}/children: the JSON body
\* the bug: the drive is asked to rename a folder whose name is taken
createFolderBody_Rename(segment) ==
    [name |-> segment, folder |-> TRUE, conflictBehavior |-> "rename"]

createFolderBody(segment) ==
    [name |-> segment, folder |-> TRUE, conflictBehavior |-> "fail"]

createRequest(parentId, segment, key) ==
    [kind |-> "create", parentId |-> parentId, body |-> createFolderBody(segment), key |-> key]

\* GET /drives/{driveId}/items/{parentId}/children?$filter=name eq '{segment}'
childrenRequest(parentId, segment, key) ==
    [kind |-> "children", parentId |-> parentId, name |-> segment, key |-> key]

\* the bug: the file is addressed by its name alone
uploadRequest_NameOnly(folderId, file, fileStream) ==
    [kind |-> "upload", folderId |-> folderId, relative |-> <<"", file.name>>,
     path |-> file.path, body |-> fileStream]

\* PUT /drives/{driveId}/items/{folderId}:{relative}:/content
uploadRequest(folderId, file, fileStream) ==
    [kind |-> "upload", folderId |-> folderId, relative |-> file.relative, path |-> file.path,
     body |-> fileStream]

\* the bug: the stream is opened before the retry loop, once per file
createReadStream_OncePerFile(opened, n) == IF n = 0 THEN opened + 1 ELSE opened

\* fs.createReadStream inside the operation: the streams opened after the call,
\* the latest being the new one
createReadStream(opened, n) == opened + 1

Response(ok, status, id, value) ==
    [net |-> FALSE, ok |-> ok, status |-> status, id |-> id, value |-> value]

\* fetch rejects: no response
NetworkFailure == [net |-> TRUE, ok |-> FALSE, status |-> 0, id |-> 0, value |-> <<>>]

Item(id, parent, name, kind) == [id |-> id, parent |-> parent, name |-> name, kind |-> kind]

childrenNamed(items, parent, name) == {i \in items : i.parent = parent /\ i.name = name}

isFolder(items, id) == id = FolderId \/ \E i \in items : i.id = id /\ i.kind = "folder"

setToSeq(S) ==
    LET RECURSIVE toSeq(_)
        toSeq(T) == IF T = {} THEN <<>>
                    ELSE LET x == CHOOSE y \in T : TRUE IN <<x>> \o toSeq(T \ {x})
    IN toSeq(S)

\* the drive's answer to a create-folder request, and the items afterwards
remoteCreate(items, id, req) ==
    LET name == req.body.name
        same == childrenNamed(items, req.parentId, name)
    IN IF ~isFolder(items, req.parentId)
       THEN [response |-> Response(FALSE, 404, 0, <<>>), items |-> items]
       ELSE IF same = {}
       THEN [response |-> Response(TRUE, 201, id, <<>>),
             items |-> items \cup {Item(id, req.parentId, name, "folder")}]
       ELSE IF req.body.conflictBehavior = "fail"
       THEN [response |-> Response(FALSE, 409, 0, <<>>), items |-> items]
       ELSE IF req.body.conflictBehavior = "rename"
       THEN [response |-> Response(TRUE, 201, id, <<>>),
             items |-> items \cup {Item(id, req.parentId, name \o " 1", "folder")}]
       ELSE [response |-> Response(TRUE, 200, (CHOOSE i \in same : TRUE).id, <<>>),
             items |-> items]

\* the drive's answer to a name-filtered children query
remoteChildren(items, req) ==
    IF ~isFolder(items, req.parentId) THEN Response(FALSE, 404, 0, <<>>)
    ELSE Response(TRUE, 200, 0, setToSeq(childrenNamed(items, req.parentId, req.name)))

\* the folder a relative path leads to from the item id
RECURSIVE resolveFolder(_, _, _)
resolveFolder(items, id, segments) ==
    IF segments = <<>> THEN [found |-> isFolder(items, id), id |-> id]
    ELSE LET next == {i \in childrenNamed(items, id, Head(segments)) : i.kind = "folder"}
         IN IF next = {} THEN [found |-> FALSE, id |-> id]
            ELSE resolveFolder(items, (CHOOSE i \in next : TRUE).id, Tail(segments))

\* the drive's answer to a content upload by path, and the items afterwards
remoteUpload(items, id, req) ==
    LET segments == SelectSeq(req.relative, LAMBDA x : x # "")
        parent == resolveFolder(items, req.folderId, Front(segments))
        name == segments[Len(segments)]
        same == childrenNamed(items, parent.id, name)
    IN IF ~parent.found
       THEN [response |-> Response(FALSE, 404, 0, <<>>), items |-> items]
       ELSE IF same = {}
       THEN [response |-> Response(TRUE, 201, id, <<>>),
             items |-> items \cup {Item(id, parent.id, name, "file")}]
       ELSE IF \E i \in same : i.kind = "folder"
       THEN [response |-> Response(FALSE, 409, 0, <<>>), items |-> items]
       ELSE [response |-> Response(TRUE, 200, (CHOOSE i \in same : TRUE).id, <<>>),
             items |-> items]

\* what the remote may hold before the first run: nothing, or a folder or a
\* file named like the first local name
InitialRemotes ==
    {{}, {Item(1, FolderId, NameOrder[1], "folder")}, {Item(1, FolderId, NameOrder[1], "file")}}

\* the faults the remote can answer a request with
statusFaults(kind) ==
    CASE kind = "create" -> {Response(FALSE, 503, 0, <<>>), NetworkFailure}
      [] kind = "children" ->
            {Response(FALSE, 503, 0, <<>>), Response(FALSE, 423, 0, <<>>), NetworkFailure}
      [] kind = "upload" ->
            {Response(FALSE, 503, 0, <<>>), Response(FALSE, 423, 0, <<>>), NetworkFailure}

\* graphFetch: what it returns or throws for a response
graphFetchOutcome(res) ==
    IF res.net THEN FetchFailed
    ELSE IF ~res.ok THEN GraphApiError(res.status, HeaderAbsent)
    ELSE OkOutcome

(***************************************************************************)
(* The upload action: run() of sta-sharepoint-upload.js.                   *)
(***************************************************************************)
UPLOAD_MAX_RETRIES == 2

\* the module-level uploadReport and sourceStructure of a new process
newUploadReport ==
    [uploads |-> 0, uploadList |-> <<>>, failures |-> 0, failedList |-> <<>>,
     failedFolderCreations |-> 0, lockedFiles |-> 0]

newSourceStructure == [folders |-> <<>>, files |-> <<>>]

Output(name, value) == [name |-> name, value |-> value]

\* the finally block of run
finallyOutputs(report) ==
    <<Output("upload_successes", report.uploads),
      Output("upload_list", report.uploadList),
      Output("upload_failures", report.failures),
      Output("upload_failed_list", report.failedList),
      Output("upload_failed_locked", report.lockedFiles)>>

startOfFolder(i) == [folder |-> i, segment |-> 1, currentPath |-> "", parentId |-> FolderId]

\* the next segment of the folder, or the first segment of the next folder
advance(w, folders) ==
    IF w.segment < Len(folders[w.folder].path)
    THEN [w EXCEPT !.segment = @ + 1]
    ELSE startOfFolder(w.folder + 1)

\* the bug: the parent id is not taken from the map on a cache hit
onCacheHit_KeepsParent(w, key, map) == [w EXCEPT !.currentPath = key]

\* if (folderMap.has(currentPath)) parentId = folderMap.get(currentPath)
onCacheHit(w, key, map) == [w EXCEPT !.currentPath = key, !.parentId = map[key]]

\* the bug: a failed upload is not recorded
recordOutcome_DropsFailure(report, success, item) ==
    IF success
    THEN [report EXCEPT !.uploads = @ + 1, !.uploadList = Append(@, item.relative)]
    ELSE report

\* the bug: a failed file is listed but not counted
recordOutcome_FailureUncounted(report, success, item) ==
    IF success
    THEN [report EXCEPT !.uploads = @ + 1, !.uploadList = Append(@, item.relative)]
    ELSE [report EXCEPT !.failedList = Append(@, item.path)]

\* the bug: a failed file is put on both lists
recordOutcome_OnBothLists(report, success, item) ==
    IF success
    THEN [report EXCEPT !.uploads = @ + 1, !.uploadList = Append(@, item.relative)]
    ELSE [report EXCEPT !.failures = @ + 1, !.failedList = Append(@, item.path),
                        !.uploadList = Append(@, item.relative)]

\* uploadFiles: the report after one file
recordOutcome(report, success, item) ==
    IF success
    THEN [report EXCEPT !.uploads = @ + 1, !.uploadList = Append(@, item.relative)]
    ELSE [report EXCEPT !.failures = @ + 1, !.failedList = Append(@, item.path)]

\* the bug: the id of the created folder is not put into the folder map
cacheCreated_Forgets(map, key, id) == map

\* folderMap.set(currentPath, data.id)
cacheCreated(map, key, id) == (key :> id) @@ map

\* the bug: the id of the existing folder is not put into the folder map
adoptExisting_NotCached(map, key, existing) == map

\* const { id } = existing.value[0]; folderMap.set(currentPath, id)
adoptExisting(map, key, existing) == (key :> existing[1].id) @@ map

\* graphFetch: if (res.status === 423) uploadReport.lockedFiles += 1
countLocked(report, res) ==
    IF ~res.net /\ ~res.ok /\ res.status = 423
    THEN [report EXCEPT !.lockedFiles = @ + 1]
    ELSE report

folders == sourceFolders(sourceStructure)

files == sourceFiles(sourceStructure)

currentSegment == folders[walk.folder].path[walk.segment]

\* a call of retryUploadOperation begins
RetryStart ==
    /\ attempt' = 0
    /\ rpc' = "call"
    /\ lastError' = NoOutcome
    /\ surfaced' = NoOutcome
    /\ waitTime' = 0
    /\ invocations' = 0
    /\ sleeps' = 0
    /\ lastOutcome' = NoOutcome
    /\ priorStatus' = TRUE
    /\ UNCHANGED <<exec, env, maxRetries, clock>>

\* the bug: the report outputs are set in the try block only
Abort_NoReport(where, message, report) ==
    /\ outputs' = outputs \o <<Output("error_message", message)>>
    /\ uploadReport' = report
    /\ aborted' = where
    /\ pc' = "done"
    /\ inflight' = NoRequest

\* the bug: an error of the folder walk is reported and the walk goes on
Abort_GoesOn(where, message, report) ==
    /\ outputs' = outputs \o <<Output("error_message", message)>> \o finallyOutputs(report)
    /\ uploadReport' = report
    /\ aborted' = where
    /\ pc' = IF where = "folders" THEN "walk" ELSE "done"
    /\ inflight' = NoRequest

\* the catch and finally blocks of run, after an error thrown from `where`
Abort(where, message, report) ==
    /\ outputs' = outputs \o <<Output("error_message", message)>> \o finallyOutputs(report)
    /\ uploadReport' = report
    /\ aborted' = where
    /\ pc' = "done"
    /\ inflight' = NoRequest

\* the bug: failed uploads are reported without an error message
Finish_Silent(report) ==
    /\ outputs' = outputs \o finallyOutputs(report)
    /\ uploadReport' = report
    /\ pc' = "done"

\* the end of the try block and the finally block of run
Finish(report) ==
    /\ outputs' = outputs
            \o (IF report.failures > 0 \/ Len(report.failedList) > 0
                THEN <<Output("error_message", "Some uploads failed")>> ELSE <<>>)
            \o finallyOutputs(report)
    /\ uploadReport' = report
    /\ pc' = "done"

\* the remote can answer a request of the first run with a fault while the
\* budget lasts; it answers the second run by its state
mayFault == run = 1 /\ faults < MaxFaults

\* the answers the remote can give: its own, or a fault while the budget lasts
createAnswers ==
    {remoteCreate(remote, nextId, inflight)}
        \cup (IF mayFault
              THEN {[response |-> f, items |-> remote] : f \in statusFaults("create")}
              ELSE {})

\* the fault a request met on its last attempt, met again
sameFault(kind) ==
    IF run = 1 /\ attempt > 0
    THEN {f \in statusFaults(kind) : graphFetchOutcome(f) = [lastError EXCEPT !.seq = 0]}
    ELSE {}

\* a children listing the drive's state does not explain: no item, or one too many
strayListings(req) ==
    {Response(TRUE, 200, 0, <<>>),
     Response(TRUE, 200, 0,
              setToSeq(childrenNamed(remote, req.parentId, req.name))
                \o <<Item(nextId, req.parentId, req.name, "folder")>>)}

childrenAnswers ==
    {remoteChildren(remote, inflight)}
        \cup (IF mayFault
              THEN statusFaults("children") \cup strayListings(inflight)
              ELSE sameFault("children"))

uploadAnswers ==
    {remoteUpload(remote, nextId, inflight)}
        \cup {[response |-> f, items |-> remote] :
                f \in IF mayFault THEN statusFaults("upload") ELSE sameFault("upload")}

countFault(isFault) == faults' = IF isFault THEN faults + 1 ELSE faults

\* what the run saw of the answer to a request of the given kind
answerTo(kind, res) ==
    [kind |-> "answer", to |-> kind, net |-> res.net, ok |-> res.ok,
     status |-> res.status, count |-> Len(res.value)]

\* !existing?.value || existing.value.length === 0
existingMissing(existing) == Len(existing) = 0

\* the bug: the first of several listed items is taken
existingAmbiguous_Never(existing) == FALSE

\* existing.value.length !== 1
existingAmbiguous(existing) == Len(existing) # 1

(***************************************************************************)
(* Spec: the actions.                                                      *)
(***************************************************************************)
SyncInit(t, exists, items) ==
    /\ pc = "start"
    /\ tree = t
    /\ docsDirExists = exists
    /\ sourceStructure = newSourceStructure
    /\ uploadReport = newUploadReport
    /\ outputs = <<>>
    /\ folderMap = [k \in {} |-> 0]
    /\ walk = startOfFolder(0)
    /\ fileIdx = 0
    /\ streams = 0
    /\ inflight = NoRequest
    /\ remote = items
    /\ nextId = 2
    /\ faults = 0
    /\ log = <<>>
    /\ adopted = {}
    /\ aborted = "no"
    /\ run = 1
    /\ first = [done |-> FALSE, remote |-> {}, clean |-> FALSE, faults |-> 0]
    /\ exec = "upload"
    /\ env = [value |-> EnvUnset, passed |-> FALSE]
    /\ maxRetries = UPLOAD_MAX_RETRIES
    /\ attempt = 0
    /\ rpc = "idle"
    /\ lastError = NoOutcome
    /\ surfaced = NoOutcome
    /\ waitTime = 0
    /\ invocations = 0
    /\ sleeps = 0
    /\ lastOutcome = NoOutcome
    /\ priorStatus = TRUE
    /\ clock = 0
    /\ AemOff

Init ==
    \/ \E t \in Trees, items \in InitialRemotes : SyncInit(t, TRUE, items)
    \/ SyncInit({}, FALSE, {})

\* run up to the first remote request: existsSync, the scan, the folder map
runStart ==
    /\ pc = "start"
    /\ IF ~docsDirExists
       THEN /\ Abort("scan", "Directory was not found", uploadReport)
            /\ UNCHANGED <<sourceStructure, folderMap, walk>>
       ELSE IF noUploadItems(readdirSync(tree, DocsDir), TRUE)
       THEN /\ Abort("scan", "No upload items found", uploadReport)
            /\ UNCHANGED <<sourceStructure, folderMap, walk>>
       ELSE /\ sourceStructure' = populateSourceStructure(tree, DocsDir, sourceStructure)
            /\ folderMap' = ("" :> FolderId)
            /\ walk' = startOfFolder(1)
            /\ pc' = "walk"
            /\ UNCHANGED <<uploadReport, outputs, aborted, inflight>>
    /\ UNCHANGED <<tree, docsDirExists, fileIdx, streams, remote, nextId, faults, log, adopted, run, first>>
    /\ UNCHANGED retryVars
    /\ UNCHANGED aemVars

\* createFoldersIfNecessary: a segment whose path is in the folder map
folderCached ==
    /\ pc = "walk" /\ walk.folder <= Len(folders)
    /\ LET key == joinPath(walk.currentPath, currentSegment)
       IN /\ key \in DOMAIN folderMap
          /\ walk' = advance(onCacheHit(walk, key, folderMap), folders)
    /\ UNCHANGED <<pc, tree, docsDirExists, sourceStructure, uploadReport, outputs, folderMap,
                   fileIdx, streams, inflight, remote, nextId, faults, log, adopted, aborted, run, first>>
    /\ UNCHANGED retryVars
    /\ UNCHANGED aemVars

\* the bug: the create request is sent and the walk goes on without its answer
createFolder_NotAwaited ==
    /\ pc = "walk" /\ walk.folder <= Len(folders)
    /\ LET key == joinPath(walk.currentPath, currentSegment)
       IN /\ key \notin DOMAIN folderMap
          /\ walk' = advance([walk EXCEPT !.currentPath = key], folders)
          /\ inflight' = createRequest(walk.parentId, currentSegment, key)
          /\ log' = Append(log, createRequest(walk.parentId, currentSegment, key))
    /\ UNCHANGED <<pc, tree, docsDirExists, sourceStructure, uploadReport, outputs, folderMap,
                   fileIdx, streams, remote, nextId, faults, adopted, aborted, run, first>>
    /\ UNCHANGED retryVars
    /\ UNCHANGED aemVars

\* createFoldersIfNecessary: the create request for a segment that is not
createFolder ==
    /\ pc = "walk" /\ walk.folder <= Len(folders)
    /\ LET key == joinPath(walk.currentPath, currentSegment)
       IN /\ key \notin DOMAIN folderMap
          /\ walk' = [walk EXCEPT !.currentPath = key]
          /\ inflight' = createRequest(walk.parentId, currentSegment, key)
          /\ log' = Append(log, createRequest(walk.parentId, currentSegment, key))
    /\ pc' = "create"
    /\ UNCHANGED <<tree, docsDirExists, sourceStructure, uploadReport, outputs, folderMap,
                   fileIdx, streams, remote, nextId, faults, adopted, aborted, run, first>>
    /\ UNCHANGED retryVars
    /\ UNCHANGED aemVars

\* createFoldersIfNecessary: the response to the create request
createFolderResponse ==
    /\ pc = "create"
    /\ \E answer \in createAnswers :
        LET res == answer.response
            key == inflight.key
        IN /\ remote' = answer.items
           /\ nextId' = IF answer.items # remote THEN nextId + 1 ELSE nextId
           /\ countFault(answer # remoteCreate(remote, nextId, inflight))
           /\ log' = Append(log, answerTo("create", res))
           /\ IF res.net
              THEN /\ Abort("folders", "fetch failed", uploadReport)
                   /\ UNCHANGED <<folderMap, walk>>
                   /\ UNCHANGED retryVars
              ELSE IF res.ok
              THEN /\ folderMap' = cacheCreated(folderMap, key, res.id)
                   /\ walk' = advance([walk EXCEPT !.parentId = res.id], folders)
                   /\ pc' = "walk"
                   /\ inflight' = NoRequest
                   /\ UNCHANGED <<uploadReport, outputs, aborted>>
                   /\ UNCHANGED retryVars
              ELSE IF res.status = 409
              THEN /\ pc' = "query"
                   /\ inflight' = NoRequest
                   /\ RetryStart
                   /\ UNCHANGED <<folderMap, walk, uploadReport, outputs, aborted>>
              ELSE /\ Abort("folders", "Failed to create folder",
                            [uploadReport EXCEPT !.failedFolderCreations = @ + 1])
                   /\ UNCHANGED <<folderMap, walk>>
                   /\ UNCHANGED retryVars
    /\ UNCHANGED <<tree, docsDirExists, sourceStructure, fileIdx, streams, adopted, run, first>>
    /\ UNCHANGED aemVars

\* graphFetchWithRetry: the children query of an attempt
queryExisting ==
    /\ pc = "query" /\ rpc = "call" /\ inflight = NoRequest /\ attempt <= maxRetries
    /\ inflight' = childrenRequest(walk.parentId, currentSegment, walk.currentPath)
    /\ log' = Append(log, childrenRequest(walk.parentId, currentSegment, walk.currentPath))
    /\ UNCHANGED <<pc, tree, docsDirExists, sourceStructure, uploadReport, outputs, folderMap,
                   walk, fileIdx, streams, remote, nextId, faults, adopted, aborted, run, first>>
    /\ UNCHANGED retryVars
    /\ UNCHANGED aemVars

\* graphFetchWithRetry: the response, and what createFoldersIfNecessary does
\* with the listing once the executor has returned it
queryResponse ==
    /\ pc = "query" /\ inflight.kind = "children"
    /\ \E res \in childrenAnswers :
        /\ countFault(res # remoteChildren(remote, inflight) /\ attempt = 0)
        /\ log' = Append(log, answerTo("children", res))
        /\ UploadIteration(graphFetchOutcome(res), clock)
        /\ IF rpc' = "sleep"
           THEN /\ inflight' = NoRequest
                /\ uploadReport' = countLocked(uploadReport, res)
                /\ UNCHANGED <<pc, outputs, folderMap, walk, adopted, aborted>>
           ELSE IF rpc' = "thrown"
           THEN /\ Abort("folders", "Graph API error", countLocked(uploadReport, res))
                /\ UNCHANGED <<folderMap, walk, adopted>>
           ELSE IF existingMissing(res.value)
           THEN /\ Abort("folders", "Failed to get data for existing folder", uploadReport)
                /\ UNCHANGED <<folderMap, walk, adopted>>
           ELSE IF existingAmbiguous(res.value)
           THEN /\ Abort("folders", "Found multiple existing folders", uploadReport)
                /\ UNCHANGED <<folderMap, walk, adopted>>
           ELSE /\ folderMap' = adoptExisting(folderMap, walk.currentPath, res.value)
                /\ walk' = [walk EXCEPT !.parentId = res.value[1].id]
                /\ adopted' = adopted \cup {walk.currentPath}
                /\ pc' = "folderDelay"
                /\ inflight' = NoRequest
                /\ UNCHANGED <<uploadReport, outputs, aborted>>
    /\ UNCHANGED <<exec, env, maxRetries>>
    /\ UNCHANGED <<tree, docsDirExists, sourceStructure, fileIdx, streams, remote, nextId, run, first>>
    /\ UNCHANGED aemVars

\* createFoldersIfNecessary: await sleep(delay) after adopting a folder
folderDelayDone ==
    /\ pc = "folderDelay"
    /\ walk' = advance(walk, folders)
    /\ pc' = "walk"
    /\ UNCHANGED <<tree, docsDirExists, sourceStructure, uploadReport, outputs, folderMap,
                   fileIdx, streams, inflight, remote, nextId, faults, log, adopted, aborted, run, first>>
    /\ UNCHANGED retryVars
    /\ UNCHANGED aemVars

\* the bug: the uploads begin while the last folder is still to be resolved
createFoldersDone_Early ==
    /\ pc = "walk" /\ walk.folder >= Len(folders)
    /\ IF Len(files) = 0
       THEN /\ Finish(uploadReport)
            /\ UNCHANGED <<fileIdx, streams>>
            /\ UNCHANGED retryVars
       ELSE /\ fileIdx' = 1
            /\ UNCHANGED streams
            /\ pc' = "upload"
            /\ RetryStart
            /\ UNCHANGED <<uploadReport, outputs>>
    /\ UNCHANGED <<tree, docsDirExists, sourceStructure, folderMap, walk, inflight, remote,
                   nextId, faults, log, adopted, aborted, run, first>>
    /\ UNCHANGED aemVars

\* createFoldersIfNecessary returns; uploadFiles begins
createFoldersDone ==
    /\ pc = "walk" /\ walk.folder > Len(folders)
    /\ IF Len(files) = 0
       THEN /\ Finish(uploadReport)
            /\ UNCHANGED <<fileIdx, streams>>
            /\ UNCHANGED retryVars
       ELSE /\ fileIdx' = 1
            /\ UNCHANGED streams
            /\ pc' = "upload"
            /\ RetryStart
            /\ UNCHANGED <<uploadReport, outputs>>
    /\ UNCHANGED <<tree, docsDirExists, sourceStructure, folderMap, walk, inflight, remote,
                   nextId, faults, log, adopted, aborted, run, first>>
    /\ UNCHANGED aemVars

\* uploadFileWithRetry: the operation of an attempt opens the file and sends it
uploadFile ==
    /\ pc = "upload" /\ rpc = "call" /\ inflight = NoRequest /\ attempt <= maxRetries
    /\ streams' = createReadStream(streams, attempt)
    /\ inflight' = uploadRequest(FolderId, files[fileIdx], streams')
    /\ log' = Append(log, inflight')
    /\ UNCHANGED <<pc, tree, docsDirExists, sourceStructure, uploadReport, outputs, folderMap,
                   walk, fileIdx, remote, nextId, faults, adopted, aborted, run, first>>
    /\ UNCHANGED retryVars
    /\ UNCHANGED aemVars

\* uploadFileWithRetry: the response; uploadFiles records the file's outcome
uploadResponse ==
    /\ pc = "upload" /\ inflight.kind = "upload"
    /\ \E answer \in uploadAnswers :
        LET res == answer.response
        IN /\ remote' = answer.items
           /\ nextId' = IF answer.items # remote THEN nextId + 1 ELSE nextId
           /\ countFault(answer # remoteUpload(remote, nextId, inflight) /\ attempt = 0)
           /\ log' = Append(log, answerTo("upload", res))
           /\ UploadIteration(graphFetchOutcome(res), clock)
           /\ uploadReport' =
                IF rpc' = "sleep" THEN countLocked(uploadReport, res)
                ELSE recordOutcome(countLocked(uploadReport, res), rpc' = "returned",
                                   files[fileIdx])
           /\ pc' = IF rpc' = "sleep" THEN "upload" ELSE "uploadDelay"
    /\ inflight' = NoRequest
    /\ UNCHANGED <<exec, env, maxRetries>>
    /\ UNCHANGED <<tree, docsDirExists, sourceStructure, outputs, folderMap, walk, fileIdx, streams,
                   adopted, aborted, run, first>>
    /\ UNCHANGED aemVars

\* the bug: the loop over the files ends at the first failed file
uploadDelayDone_FailFast ==
    /\ pc = "uploadDelay"
    /\ IF fileIdx < Len(files) /\ uploadReport.failures = 0
       THEN /\ fileIdx' = fileIdx + 1
            /\ UNCHANGED streams
            /\ pc' = "upload"
            /\ RetryStart
            /\ UNCHANGED <<uploadReport, outputs>>
       ELSE /\ Finish(uploadReport)
            /\ UNCHANGED <<fileIdx, streams>>
            /\ UNCHANGED retryVars
    /\ UNCHANGED <<tree, docsDirExists, sourceStructure, folderMap, walk, inflight, remote,
                   nextId, faults, log, adopted, aborted, run, first>>
    /\ UNCHANGED aemVars

\* uploadFiles: await sleep(delay) after a file; the next file, or the report
uploadDelayDone ==
    /\ pc = "uploadDelay"
    /\ IF fileIdx < Len(files)
       THEN /\ fileIdx' = fileIdx + 1
            /\ UNCHANGED streams
            /\ pc' = "upload"
            /\ RetryStart
            /\ UNCHANGED <<uploadReport, outputs>>
       ELSE /\ Finish(uploadReport)
            /\ UNCHANGED <<fileIdx, streams>>
            /\ UNCHANGED retryVars
    /\ UNCHANGED <<tree, docsDirExists, sourceStructure, folderMap, walk, inflight, remote,
                   nextId, faults, log, adopted, aborted, run, first>>
    /\ UNCHANGED aemVars

\* after a first run without an error or a failed file, the action runs a
\* second time, in a new process, against the same tree and the drive as
\* the first run left it
runAgain ==
    /\ pc = "done" /\ run = 1
    /\ aborted = "no" /\ uploadReport.failures = 0
    /\ run' = 2
    /\ first' = [done |-> TRUE, remote |-> remote,
                 clean |-> (aborted = "no" /\ uploadReport.failures = 0),
                 faults |-> faults]
    /\ pc' = "start"
    /\ sourceStructure' = newSourceStructure
    /\ uploadReport' = newUploadReport
    /\ outputs' = <<>>
    /\ folderMap' = [k \in {} |-> 0]
    /\ walk' = startOfFolder(0)
    /\ fileIdx' = 0
    /\ streams' = 0
    /\ log' = <<>>
    /\ adopted' = {}
    /\ aborted' = "no"
    /\ attempt' = 0
    /\ rpc' = "idle"
    /\ lastError' = NoOutcome
    /\ surfaced' = NoOutcome
    /\ waitTime' = 0
    /\ invocations' = 0
    /\ sleeps' = 0
    /\ lastOutcome' = NoOutcome
    /\ priorStatus' = TRUE
    /\ UNCHANGED <<exec, env, maxRetries, clock, tree, docsDirExists, inflight, remote, nextId, faults>>
    /\ UNCHANGED aemVars

Next ==
    \/ runStart
    \/ folderCached
    \/ createFolder
    \/ createFolderResponse
    \/ queryExisting
    \/ queryResponse
    \/ folderDelayDone
    \/ createFoldersDone
    \/ uploadFile
    \/ uploadResponse
    \/ uploadDelayDone
    \/ sleepDone
    \/ runAgain

Spec == Init /\ [][Next]_vars

\* after a first run without an error or a failed file, a caller that has
\* imported the module calls the exported run again, in the same process:
\* the module-level uploadReport and sourceStructure are the same objects and
\* run does not reset them
runCalledAgain ==
    /\ pc = "done" /\ run = 1
    /\ aborted = "no" /\ uploadReport.failures = 0
    /\ run' = 2
    /\ first' = [done |-> TRUE, remote |-> remote,
                 clean |-> (aborted = "no" /\ uploadReport.failures = 0),
                 faults |-> faults]
    /\ pc' = "start"
    /\ folderMap' = [k \in {} |-> 0]
    /\ walk' = startOfFolder(0)
    /\ fileIdx' = 0
    /\ log' = <<>>
    /\ adopted' = {}
    /\ aborted' = "no"
    /\ attempt' = 0
    /\ rpc' = "idle"
    /\ lastError' = NoOutcome
    /\ surfaced' = NoOutcome
    /\ waitTime' = 0
    /\ invocations' = 0
    /\ sleeps' = 0
    /\ lastOutcome' = NoOutcome
    /\ priorStatus' = TRUE
    /\ UNCHANGED <<sourceStructure, uploadReport, outputs, streams>>
    /\ UNCHANGED <<exec, env, maxRetries, clock, tree, docsDirExists, inflight, remote, nextId, faults>>
    /\ UNCHANGED aemVars

NextSameProcess ==
    \/ runStart
    \/ folderCached
    \/ createFolder
    \/ createFolderResponse
    \/ queryExisting
    \/ queryResponse
    \/ folderDelayDone
    \/ createFoldersDone
    \/ uploadFile
    \/ uploadResponse
    \/ uploadDelayDone
    \/ sleepDone
    \/ runCalledAgain

SpecSameProcess == Init /\ [][NextSameProcess]_vars

(***************************************************************************)
(* The AEM helper action: run() of sta-aem-helper.js with                  *)
(* doFetchAccessToken, doPreviewPublish and deletePreviewPublish.  A page  *)
(* is a path without its directory: a base name and an extension.          *)
(***************************************************************************)
\* largest number of pages handed to the action
MaxPages == 2

AEM_HELPER_OPERATIONS ==
    [FETCH_ACCESS_TOKEN |-> "fetch-access-token",
     PREVIEW_PAGES |-> "preview",
     PREVIEW_AND_PUBLISH |-> "previewAndPublish",
     DELETE_PREVIEW_AND_PUBLISH |-> "deletePreviewAndPublish"]

HELIX_API_PREFIX == [PREVIEW |-> "preview", LIVE |-> "live"]

HTTP_METHODS == [POST |-> "POST", DELETE |-> "DELETE"]

AemOperations ==
    {AEM_HELPER_OPERATIONS.FETCH_ACCESS_TOKEN, AEM_HELPER_OPERATIONS.PREVIEW_PAGES,
     AEM_HELPER_OPERATIONS.PREVIEW_AND_PUBLISH,
     AEM_HELPER_OPERATIONS.DELETE_PREVIEW_AND_PUBLISH, "other"}

PagePaths ==
    {[base |-> "index", ext |-> "docx"], [base |-> "data", ext |-> "xlsx"],
     [base |-> "nav", ext |-> ""]}

\* the inputs pages and context: whether JSON.parse(pagesInput) succeeds, and
\* whether the context parses and names an owner and a repo
AemInputs ==
    [pages : UNION {[1 .. n -> PagePaths] : n \in 0 .. MaxPages},
     pagesOk : BOOLEAN, contextOk : BOOLEAN]

\* what the admin API answers to one request: a status, or no response at all
HelixAnswers ==
    {[kind |-> "response", status |-> st] : st \in {200, 401, 404, 415, 423, 500}}
        \cup {[kind |-> "throw", status |-> 0]}

\* the token getAccessTokenWithFallback may return
AccessTokens == {"", "ims"}

fixPathForHelix(filePath, force) ==
    IF force \/ filePath.ext \in {"docx", "html"} THEN [filePath EXCEPT !.ext = ""]
    ELSE IF filePath.ext = "xlsx" THEN [filePath EXCEPT !.ext = "json"]
    ELSE filePath

\* one call: the requests it sends, in order, and the boolean it returns.  The
\* retry without extension is called with the endpoint and the path only, so
\* its token is undefined and its method the default POST.
RECURSIVE performPreviewPublish(_, _, _, _, _)
performPreviewPublish(action, pagePath, token, method, answers) ==
    LET page == fixPathForHelix(pagePath, FALSE)
        noExtPath == fixPathForHelix(pagePath, TRUE)
        request == [action |-> action, page |-> page, method |-> method,
                    authorized |-> token # ""]
        resp == Head(answers)
    IN IF resp.kind = "throw" THEN [result |-> FALSE, requests |-> <<request>>]
       ELSE IF resp.status \in 200 .. 299 THEN [result |-> TRUE, requests |-> <<request>>]
       ELSE IF /\ resp.status = 415 \/ (action = "live" /\ resp.status = 404)
               /\ noExtPath # page /\ noExtPath # pagePath
            THEN LET again == performPreviewPublish(action, noExtPath, "",
                                                    HTTP_METHODS.POST, Tail(answers))
                 IN [result |-> again.result, requests |-> <<request>> \o again.requests]
            ELSE [result |-> FALSE, requests |-> <<request>>]

newPageReport ==
    [successes |-> 0, failures |-> 0, failureList |-> [preview |-> <<>>, publish |-> <<>>]]

\* the actions the loops go through, and the method of their requests
actionsOf(op) ==
    IF op = AEM_HELPER_OPERATIONS.PREVIEW_PAGES THEN <<HELIX_API_PREFIX.PREVIEW>>
    ELSE <<HELIX_API_PREFIX.PREVIEW, HELIX_API_PREFIX.LIVE>>

\* the catch block of run
CatchError(message) ==
    /\ aemOutputs' = Append(aemOutputs, Output("error_message", message))
    /\ aemPc' = "done"

\* the retry executors are not running
RetryOff ==
    /\ exec = "http"
    /\ env = [value |-> EnvUnset, passed |-> TRUE]
    /\ maxRetries = 0
    /\ attempt = 0
    /\ rpc = "idle"
    /\ lastError = NoOutcome
    /\ surfaced = NoOutcome
    /\ waitTime = 0
    /\ invocations = 0
    /\ sleeps = 0
    /\ lastOutcome = NoOutcome
    /\ priorStatus = TRUE
    /\ clock = 0

InitAem ==
    /\ aemPc = "start"
    /\ operation \in AemOperations
    /\ input \in AemInputs
    /\ accessToken = ""
    /\ pageReport = newPageReport
    /\ loopAt = [action |-> 0, page |-> 0]
    /\ aemOutputs = <<>>
    /\ aemLog = <<>>
    /\ tokenPromise = "none"
    /\ RetryOff
    /\ SyncOff

\* run up to its first await.  doFetchAccessToken is called and its promise
\* dropped: run leaves the try block and returns while the promise is pending.
runAemHelper ==
    /\ aemPc = "start"
    /\ IF operation = AEM_HELPER_OPERATIONS.FETCH_ACCESS_TOKEN
       THEN /\ tokenPromise' = "pending"
            /\ aemPc' = "done"
            /\ UNCHANGED aemOutputs
       ELSE IF operation \in {AEM_HELPER_OPERATIONS.PREVIEW_PAGES,
                              AEM_HELPER_OPERATIONS.PREVIEW_AND_PUBLISH,
                              AEM_HELPER_OPERATIONS.DELETE_PREVIEW_AND_PUBLISH}
       THEN /\ IF input.pagesOk
               THEN aemPc' = "token" /\ UNCHANGED aemOutputs
               ELSE CatchError("Unexpected token")
            /\ UNCHANGED tokenPromise
       ELSE /\ CatchError("Unknown AEM helper operation")
            /\ UNCHANGED tokenPromise
    /\ UNCHANGED <<operation, input, accessToken, pageReport, loopAt, aemLog>>
    /\ UNCHANGED <<retryVars, syncVars>>

\* the dropped promise settles: the continuation of doFetchAccessToken sets
\* access_token, or throws into a promise nobody handles
doFetchAccessToken ==
    /\ tokenPromise = "pending"
    /\ \E outcome \in {"token", "credentials", "sign", "exchange"} :
          IF outcome = "token"
          THEN /\ aemOutputs' = Append(aemOutputs, Output("access_token", "ims"))
               /\ tokenPromise' = "fulfilled"
          ELSE /\ tokenPromise' = "rejected"
               /\ UNCHANGED aemOutputs
    /\ UNCHANGED <<aemPc, operation, input, accessToken, pageReport, loopAt, aemLog>>
    /\ UNCHANGED <<retryVars, syncVars>>

\* await getAccessTokenWithFallback(), then the entry of doPreviewPublish or
\* deletePreviewPublish up to the loops
getAccessTokenWithFallback ==
    /\ aemPc = "token"
    /\ \/ /\ CatchError("No access token")
          /\ UNCHANGED <<accessToken, pageReport, loopAt>>
       \/ \E token \in AccessTokens :
             /\ accessToken' = token
             /\ IF input.contextOk
                THEN /\ pageReport' = newPageReport
                     /\ loopAt' = [action |-> 1, page |-> 1]
                     /\ aemPc' = "loop"
                     /\ UNCHANGED aemOutputs
                ELSE /\ CatchError("Invalid context format: missing owner or repo.")
                     /\ UNCHANGED <<pageReport, loopAt>>
    /\ UNCHANGED <<operation, input, aemLog, tokenPromise>>
    /\ UNCHANGED <<retryVars, syncVars>>

\* the page the loops stand at; the inner loop over no page is skipped
loopsDone == loopAt.action > Len(actionsOf(operation)) \/ input.pages = <<>>

nextPage(at) ==
    IF at.page < Len(input.pages) THEN [at EXCEPT !.page = @ + 1]
    ELSE [action |-> at.action + 1, page |-> 1]

\* one iteration of the inner loop: the call of performPreviewPublish and the
\* bookkeeping of its result.  failureList has the keys preview and publish;
\* for the action live, failureList[action] is undefined and push throws.
PageIteration(method) ==
    \E a1 \in HelixAnswers, a2 \in HelixAnswers :
        LET action == actionsOf(operation)[loopAt.action]
            page == input.pages[loopAt.page]
            call == performPreviewPublish(action, page, accessToken, method, <<a1, a2>>)
        IN /\ aemLog' = aemLog \o call.requests
           /\ IF call.result
              THEN /\ pageReport' = [pageReport EXCEPT !.successes = @ + 1]
                   /\ loopAt' = nextPage(loopAt)
                   /\ UNCHANGED <<aemPc, aemOutputs>>
              ELSE IF action \in DOMAIN pageReport.failureList
              THEN /\ pageReport' = [pageReport EXCEPT !.failures = @ + 1,
                                        !.failureList[action] = Append(@, page)]
                   /\ loopAt' = nextPage(loopAt)
                   /\ UNCHANGED <<aemPc, aemOutputs>>
              ELSE /\ pageReport' = [pageReport EXCEPT !.failures = @ + 1]
                   /\ CatchError("Cannot read properties of undefined (reading 'push')")
                   /\ UNCHANGED loopAt

\* after the loops: the outputs successes and failures, and error_message
EmitReport(expected, failedMessage, mismatchMessage) ==
    LET counts == <<Output("successes", pageReport.successes),
                    Output("failures", pageReport.failures)>>
    IN /\ aemOutputs' =
            aemOutputs \o counts \o
                (IF pageReport.failures > 0 THEN <<Output("error_message", failedMessage)>>
                 ELSE IF expected # pageReport.successes
                 THEN <<Output("error_message", mismatchMessage)>>
                 ELSE <<>>)
       /\ aemPc' = "done"
       /\ UNCHANGED <<pageReport, loopAt, aemLog>>

doPreviewPublish ==
    /\ aemPc = "loop"
    /\ operation \in {AEM_HELPER_OPERATIONS.PREVIEW_PAGES,
                      AEM_HELPER_OPERATIONS.PREVIEW_AND_PUBLISH}
    /\ IF loopsDone
       THEN EmitReport((IF operation = AEM_HELPER_OPERATIONS.PREVIEW_AND_PUBLISH
                        THEN 2 ELSE 1) * Len(input.pages),
                       "Failed to preview and/or publish pages",
                       "Failed to preview and/or publish all of the paths")
       ELSE PageIteration(HTTP_METHODS.POST)
    /\ UNCHANGED <<operation, input, accessToken, tokenPromise>>
    /\ UNCHANGED <<retryVars, syncVars>>

deletePreviewPublish ==
    /\ aemPc = "loop"
    /\ operation = AEM_HELPER_OPERATIONS.DELETE_PREVIEW_AND_PUBLISH
    /\ IF loopsDone
       THEN EmitReport(Len(input.pages) * 2,
                       "Failed to delete preview and publish for pages",
                       "Failed to delete preview and publish for all of the paths")
       ELSE PageIteration(HTTP_METHODS.DELETE)
    /\ UNCHANGED <<operation, input, accessToken, tokenPromise>>
    /\ UNCHANGED <<retryVars, syncVars>>

NextAem ==
    \/ runAemHelper
    \/ doFetchAccessToken
    \/ getAccessTokenWithFallback
    \/ doPreviewPublish
    \/ deletePreviewPublish

SpecAem == InitAem /\ [][NextAem]_vars

(***************************************************************************)
(* Properties of the upload action (checked under Spec).                   *)
(***************************************************************************)
\* the segments of the path prefix the walk stands at, and of its parent
walkedPrefix == SubSeq(folders[walk.folder].path, 1, walk.segment)

remoteFolders(items) == {i \in items : i.kind = "folder"}

errorOutputs == {i \in 1 .. Len(outputs) : outputs[i].name = "error_message"}

\* C1: a create-folder request for a path prefix is in flight only while the
\* parent prefix is a key of the folder map and the request's parent id is the
\* id cached for it; and a prefix is in the folder map only if every shorter
\* prefix of the same folder path is.
C1_AncestorsBeforeDescendants ==
    /\ inflight.kind = "create" =>
        /\ inflight.key = keyOf(walkedPrefix)
        /\ keyOf(Front(walkedPrefix)) \in DOMAIN folderMap
        /\ inflight.parentId = folderMap[keyOf(Front(walkedPrefix))]
    /\ pc \in {"walk", "create", "query", "folderDelay"} =>
        \A i \in 1 .. Len(folders) : \A j \in 1 .. Len(folders[i].path) :
            keyOf(SubSeq(folders[i].path, 1, j)) \in DOMAIN folderMap =>
                \A k \in 1 .. j : keyOf(SubSeq(folders[i].path, 1, k)) \in DOMAIN folderMap

\* a create request for a folder below a folder the run created or adopted
C1_Witness ==
    /\ inflight.kind = "create"
    /\ Len(walkedPrefix) >= 3
    /\ inflight.parentId # FolderId
    /\ inflight.parentId = folderMap[keyOf(Front(walkedPrefix))]

\* C2 as stated: whenever a run has ended, aborted or not, uploads plus
\* failures is the number of files the scan found.
C2_Original ==
    pc = "done" => uploadReport.uploads + uploadReport.failures = Len(files)

\* C2: when a run ends that did not abort during folder creation, uploads
\* plus failures is the number of files the scan found, and the two lists
\* hold one entry per counted file.
C2_EveryFileOneOutcome ==
    (pc = "done" /\ aborted # "folders") =>
        /\ uploadReport.uploads + uploadReport.failures = Len(files)
        /\ Len(uploadReport.uploadList) = uploadReport.uploads
        /\ Len(uploadReport.failedList) = uploadReport.failures

\* a run that ended with a file uploaded and a file failed
C2_Witness ==
    /\ pc = "done" /\ aborted = "no"
    /\ uploadReport.uploads > 0
    /\ uploadReport.failures > 0

\* C3: a second run on the same tree, against the drive a first run left
\* after ending without an error or a failed file, and answered without a
\* fault, ends without an error message; every folder it resolves is adopted
\* after a 409, the drive's folders are those the first run left, and every
\* file is uploaded.
C3_SecondRunIdempotent ==
    (run = 2 /\ pc = "done" /\ first.clean /\ faults = first.faults) =>
        /\ aborted = "no"
        /\ errorOutputs = {}
        /\ \A i \in 1 .. Len(folders) : \A j \in 1 .. Len(folders[i].path) :
            LET key == keyOf(SubSeq(folders[i].path, 1, j))
            IN key \in DOMAIN folderMap /\ (key # "" => key \in adopted)
        /\ remoteFolders(remote) = remoteFolders(first.remote)
        /\ uploadReport.uploads = Len(files)
        /\ uploadReport.failures = 0

\* a second run that adopted a nested folder and uploaded a file
C3_Witness ==
    /\ run = 2 /\ pc = "done" /\ first.clean /\ faults = first.faults
    /\ \E key \in adopted : \E parent \in adopted : key = joinPath(parent, NameOrder[1])
    /\ uploadReport.uploads > 0

(***************************************************************************)
(* Properties of the retry executors (checked under SpecRetry).            *)
(***************************************************************************)
Terminated == rpc \in {"returned", "thrown"}

Failed(o) == o.kind \in {"throw", "response"}

CarriesSomeStatus(o) ==
    Failed(o) /\ (o.hasResponse \/ o.message.text \in {"Graph API error", "digits"})

\* What each executor takes for a network failure.  fetch rejects with
\* TypeError('fetch failed'): the upload executor looks for the message, the
\* download executor for the name, the HTTP executor makes no distinction.
TransientNetworkSignal(executor, o) ==
    /\ o.kind = "throw"
    /\ CASE executor = "upload" -> MessageIncludesFetchFailed(o.message)
         [] executor = "download" -> o.name = "TypeError"
         [] executor = "http" ->
                o.name = "TypeError" /\ MessageIncludesFetchFailed(o.message)

\* C4: if the operation fails with a retryable status on its first K
\* invocations (K <= N) and succeeds on the next, the executor returns that
\* success and the operation has been invoked exactly K+1 times: after K <= N
\* such failures the executor is still going to invoke the operation, and a
\* success ends the call with the result of the latest invocation.
C4_RetryUntilSuccess ==
    (maxRetries >= 0 /\ invocations >= 1 /\ priorStatus) =>
        /\ (CarriesRetryableStatus(exec, lastOutcome) /\ invocations <= maxRetries)
                => rpc \in {"sleep", "call"}
        /\ lastOutcome.kind = "ok"
                => (rpc = "returned" /\ surfaced = lastOutcome
                        /\ surfaced.seq = invocations /\ sleeps = invocations - 1)

C4_Witness ==
    /\ exec = "download" /\ maxRetries = 2 /\ invocations = 3 /\ priorStatus
    /\ lastOutcome.kind = "ok" /\ rpc = "returned" /\ lastError.status = 520

\* C5: for every maximum retry count N >= 0 the operation is invoked at most
\* N+1 times, whatever it does.
C5_AtMostNPlusOne == maxRetries >= 0 => invocations <= maxRetries + 1

C5_Witness ==
    /\ exec = "http" /\ maxRetries = 2 /\ invocations = 3 /\ rpc = "thrown"

\* C6: an operation whose first invocation fails with an HTTP status outside
\* the executor's retryable set is invoked exactly once, no backoff sleep
\* occurs, and that failure is surfaced to the caller.
C6_NonRetryableStatusOnce ==
    (invocations = 1 /\ maxRetries >= 0 /\ CarriesSomeStatus(lastOutcome)
        /\ ~CarriesRetryableStatus(exec, lastOutcome))
        => (Terminated /\ sleeps = 0 /\ surfaced = lastOutcome)

C6_Witness ==
    /\ exec = "upload" /\ maxRetries = 2 /\ invocations = 1 /\ rpc = "thrown"
    /\ lastOutcome.status = 423 /\ surfaced = lastOutcome

\* C7 as stated: for each executor, an operation that throws an error which is
\* neither a transient-network signal nor carries a retryable status is
\* invoked exactly once and the error propagates with no sleep.
C7_Original ==
    (invocations = 1 /\ maxRetries >= 0 /\ lastOutcome.kind = "throw"
        /\ ~TransientNetworkSignal(exec, lastOutcome)
        /\ ~CarriesRetryableStatus(exec, lastOutcome))
        => (rpc = "thrown" /\ sleeps = 0 /\ surfaced = lastOutcome)

\* C7 amended: the upload and the download executor invoke such an operation
\* exactly once and throw its error with no sleep; retryHttpOperation retries
\* every thrown error while attempts remain and throws the error of its last
\* attempt otherwise.
C7_NonRetryableErrorOnce ==
    (maxRetries >= 0 /\ lastOutcome.kind = "throw" /\ lastOutcome.seq = invocations
        /\ rpc # "call")
        => IF exec = "http"
           THEN IF invocations <= maxRetries
                THEN rpc = "sleep" /\ sleeps = invocations
                ELSE rpc = "thrown" /\ surfaced = lastOutcome
           ELSE (invocations = 1
                    /\ ~TransientNetworkSignal(exec, lastOutcome)
                    /\ ~CarriesRetryableStatus(exec, lastOutcome))
                    => (rpc = "thrown" /\ sleeps = 0 /\ surfaced = lastOutcome)

C7_Witness ==
    /\ exec = "download" /\ maxRetries = 2 /\ invocations = 1 /\ rpc = "thrown"
    /\ lastOutcome = [PlainError("Error", NoMessage) EXCEPT !.seq = 1]
    /\ surfaced = lastOutcome /\ sleeps = 0

\* C8: when all N+1 attempts fail with retryable failures, the failure
\* surfaced to the caller is exactly the failure of the last attempt.
C8_LastErrorVerbatim ==
    (maxRetries >= 0 /\ invocations = maxRetries + 1 /\ Failed(lastOutcome)
        /\ (CarriesRetryableStatus(exec, lastOutcome)
                \/ TransientNetworkSignal(exec, lastOutcome)))
        => (Terminated /\ surfaced = lastOutcome /\ surfaced.seq = maxRetries + 1)

C8_Witness ==
    /\ exec = "upload" /\ maxRetries = 2 /\ invocations = 3 /\ rpc = "thrown"
    /\ sleeps = 2 /\ lastOutcome.status = 503 /\ surfaced = lastOutcome

\* C9: when a retryable failure with attempts remaining carries the header
\* Retry-After: 5, the wait before the next attempt is 5000 ms for every
\* attempt index.
C9_RetryAfterFive ==
    (rpc = "sleep" /\ lastOutcome.hasResponse /\ lastOutcome.retryAfter = HeaderFive
        /\ CarriesRetryableStatus(exec, lastOutcome))
        => waitTime = 5000

C9_Witness ==
    /\ exec = "http" /\ rpc = "sleep" /\ attempt = 1
    /\ lastOutcome.retryAfter = HeaderFive /\ waitTime = 5000

\* C10 as stated: for each of the three executors, when a retryable failure
\* with attempts remaining carries a Retry-After that is an HTTP-date D later
\* than the current time T, the wait before the next attempt is D - T ms.
C10_HttpDateWait ==
    (rpc = "sleep" /\ lastOutcome.hasResponse /\ lastOutcome.retryAfter.kind = "date"
        /\ lastOutcome.retryAfter.v > clock
        /\ CarriesRetryableStatus(exec, lastOutcome))
        => waitTime = lastOutcome.retryAfter.v - clock

\* C11: for each executor, when a retryable failure with attempts remaining
\* has no Retry-After header, or one that is empty, unparseable, zero,
\* negative, or an HTTP-date not after the current time, the wait before the
\* next attempt is base * 2^attempt, attempt being the index of the attempt
\* that just failed and base the executor's base delay.
C11_ExponentialBackoff ==
    (rpc = "sleep"
        /\ \/ ~lastOutcome.hasResponse
           \/ lastOutcome.retryAfter.kind \in {"absent", "empty", "garbage"}
           \/ lastOutcome.retryAfter.kind = "number" /\ lastOutcome.retryAfter.v <= 0
           \/ lastOutcome.retryAfter.kind = "date" /\ lastOutcome.retryAfter.v <= clock)
        => waitTime = (CASE exec = "upload" -> 1000
                         [] exec = "download" -> 2000
                         [] exec = "http" -> 1000)
                      * (CASE attempt = 0 -> 1 [] attempt = 1 -> 2 [] attempt = 2 -> 4
                           [] attempt = 3 -> 8 [] OTHER -> 0)

\* the third attempt of a download failed with a date that has passed
C11_Witness ==
    /\ exec = "download" /\ rpc = "sleep" /\ attempt = 2
    /\ lastOutcome.retryAfter.kind = "date" /\ lastOutcome.retryAfter.v < clock
    /\ waitTime = 8000

\* C12: a failure that carries an HTTP status s while attempts remain is
\* retried by the download executor exactly if s is one of 429, 502, 503,
\* 504, 520..524, and by the upload and the HTTP executor exactly if s is one
\* of 429, 500, 502, 503, 504.
C12_RetryableStatusSets ==
    (maxRetries >= 0 /\ rpc # "call" /\ lastOutcome.seq = invocations
        /\ CarriesSomeStatus(lastOutcome) /\ attempt < maxRetries)
        => LET s == IF lastOutcome.hasResponse THEN lastOutcome.status
                    ELSE lastOutcome.message.code
           IN (rpc = "sleep") <=>
                IF exec = "download"
                THEN s \in {429, 502, 503, 504, 520, 521, 522, 523, 524}
                ELSE s \in {429, 500, 502, 503, 504}

\* the download executor gives up on a 500 although attempts remain
C12_Witness ==
    /\ exec = "download" /\ maxRetries = 2 /\ invocations = 1 /\ rpc = "thrown"
    /\ lastOutcome.hasResponse /\ lastOutcome.status = 500 /\ sleeps = 0

(***************************************************************************)
(* Properties of the upload action, continued (checked under Spec).        *)
(***************************************************************************)
\* C13: when the create request for a prefix was answered 409 and the
\* children query listed exactly one item, the prefix is in the folder map
\* with that item's id, the id is the parent of the create request for the
\* next segment, the run has sent one create request for the prefix and no
\* more, and the adoption itself ends in no error.
C13_ConflictAdoptsExisting ==
    /\ \A key \in adopted :
        /\ key \in DOMAIN folderMap
        /\ Cardinality({i \in 1 .. Len(log) : log[i].kind = "create" /\ log[i].key = key}) = 1
    /\ pc = "folderDelay" =>
        /\ walk.currentPath \in adopted
        /\ walk.parentId = folderMap[walk.currentPath]
        /\ \E item \in remote :
            /\ item.id = walk.parentId
            /\ item.name = currentSegment
            /\ item.parent = folderMap[keyOf(Front(walkedPrefix))]
        /\ aborted = "no" /\ errorOutputs = {}
    /\ (inflight.kind = "create" /\ keyOf(Front(walkedPrefix)) \in adopted) =>
        inflight.parentId = folderMap[keyOf(Front(walkedPrefix))]

\* a create request below a folder that was adopted after a 409
C13_Witness ==
    /\ run = 1 /\ inflight.kind = "create"
    /\ keyOf(Front(walkedPrefix)) \in adopted
    /\ inflight.parentId = 1

\* C14: when the create request was answered 409 and the children query
\* listed no item or more than one, the run has ended with an error message;
\* the prefix is not in the folder map, the listing is the last remote
\* exchange of the run, and no file was uploaded or counted.
C14_AmbiguousListingAborts ==
    \A i \in 1 .. Len(log) :
        (log[i].kind = "answer" /\ log[i].to = "children" /\ log[i].ok /\ log[i].count # 1) =>
            /\ i = Len(log)
            /\ \E j \in 1 .. i :
                /\ log[j].kind = "answer" /\ log[j].to = "create" /\ log[j].status = 409
                /\ \A k \in j + 1 .. i :
                    log[k].kind = "children" \/ (log[k].kind = "answer" /\ log[k].to = "children")
            /\ pc = "done" /\ aborted = "folders"
            /\ errorOutputs # {}
            /\ walk.currentPath \notin DOMAIN folderMap
            /\ \A j \in 1 .. Len(log) : log[j].kind # "upload"
            /\ uploadReport.uploads = 0 /\ uploadReport.failures = 0

\* a run that ended on a listing of two items, with a file waiting
C14_Witness ==
    /\ pc = "done" /\ Len(log) >= 1 /\ Len(files) > 0
    /\ log[Len(log)].kind = "answer" /\ log[Len(log)].to = "children"
    /\ log[Len(log)].ok /\ log[Len(log)].count = 2

\* C15 as stated: whenever a create request was answered with a status that
\* is neither OK nor 409, or threw (a network failure), the run has ended
\* with an error message and failedFolderCreations is 1.
C15_FolderFailureCounted ==
    \A i \in 1 .. Len(log) :
        (log[i].kind = "answer" /\ log[i].to = "create"
            /\ (log[i].net \/ (~log[i].ok /\ log[i].status # 409))) =>
            /\ i = Len(log)
            /\ pc = "done" /\ aborted = "folders"
            /\ errorOutputs # {}
            /\ uploadReport.failedFolderCreations = 1

\* C16: once folder creation has failed fatally the run is over: the failing
\* answer is the last remote exchange, no request is in flight and none is
\* sent afterwards, no upload request was ever sent, uploads and failures are
\* 0 and error_message has been emitted.
C16_NoRequestAfterFatal ==
    /\ [](aborted = "folders" =>
            /\ pc = "done" /\ inflight = NoRequest
            /\ log[Len(log)].kind = "answer"
            /\ \A j \in 1 .. Len(log) : log[j].kind # "upload"
            /\ uploadReport.uploads = 0 /\ uploadReport.failures = 0
            /\ errorOutputs # {})
    /\ [][(aborted = "folders" /\ aborted' = "folders") => log' = log]_vars

\* a run with a file to upload whose folder creation was refused
C16_Witness ==
    /\ aborted = "folders" /\ pc = "done" /\ Len(files) > 0
    /\ uploadReport.failedFolderCreations = 1

\* C17 as stated: the create-folder request goes through the retry executor,
\* so when a run has ended on a create request answered with a retryable
\* status or a network failure, that request had been sent
\* UPLOAD_MAX_RETRIES + 1 times.
C17_CreateFolderRetried ==
    (pc = "done" /\ aborted = "folders"
        /\ log[Len(log)].to = "create"
        /\ (log[Len(log)].net \/ log[Len(log)].status \in {429, 500, 502, 503, 504})) =>
        Cardinality({i \in 1 .. Len(log) :
            log[i].kind = "create" /\ log[i].key = log[Len(log) - 1].key})
            = UPLOAD_MAX_RETRIES + 1

\* C18: when a run ends whose folder creation completed, every file of the
\* scan has been sent at least once; with F the files none of whose upload
\* requests was answered OK, failedList is the paths of the files in F and
\* uploadList the relative paths of the others, both in scan order, failures
\* is the size of F and uploads the number of the other files.
C18_NoFailFast ==
    (pc = "done" /\ aborted = "no") =>
        LET sent(f) == {i \in 1 .. Len(log) : log[i].kind = "upload" /\ log[i].path = f.path}
            alwaysFails(f) == \A i \in sent(f) : ~log[i + 1].ok
            failed == SelectSeq(files, alwaysFails)
            others == SelectSeq(files, LAMBDA f : ~alwaysFails(f))
        IN /\ \A k \in 1 .. Len(files) : sent(files[k]) # {}
           /\ uploadReport.failedList = [k \in 1 .. Len(failed) |-> failed[k].path]
           /\ uploadReport.uploadList = [k \in 1 .. Len(others) |-> others[k].relative]
           /\ uploadReport.failures = Len(failed)
           /\ uploadReport.uploads = Len(files) - Len(failed)

\* the first of two files failed on every attempt of the retry budget, the
\* second was uploaded
C18_Witness ==
    /\ pc = "done" /\ aborted = "no" /\ Len(files) = 2
    /\ uploadReport.failedList = <<files[1].path>>
    /\ uploadReport.uploadList = <<files[2].relative>>
    /\ Cardinality({i \in 1 .. Len(log) : log[i].kind = "upload"}) = UPLOAD_MAX_RETRIES + 2

\* C19: when the first run has ended and every request it sent was answered
\* OK, it sent one create request for every directory of the tree, empty
\* ones included, under the root id for a top-level directory and under the
\* id created for the parent directory otherwise, the drive holds the folder,
\* and every file of the tree was uploaded.
C19_AcceptingRemote ==
    (run = 1 /\ pc = "done" /\ tree # {}
        /\ \A i \in 1 .. Len(log) : log[i].kind = "answer" => (log[i].ok /\ log[i].to # "children")) =>
        /\ aborted = "no"
        /\ \A e \in {d \in tree : d.kind = "dir"} :
            LET sent == {i \in 1 .. Len(log) :
                            log[i].kind = "create" /\ log[i].key = keyOf(e.path)}
                parentId == IF Len(e.path) = 1 THEN FolderId
                            ELSE folderMap[keyOf(Front(e.path))]
            IN /\ Cardinality(sent) = 1
               /\ \A i \in sent : log[i].parentId = parentId /\ log[i].body.name = e.path[Len(e.path)]
               /\ Item(folderMap[keyOf(e.path)], parentId, e.path[Len(e.path)], "folder") \in remote
        /\ Cardinality({i \in 1 .. Len(log) : log[i].kind = "create"})
                = Cardinality({d \in tree : d.kind = "dir"})
        /\ uploadReport.uploads = Cardinality({f \in tree : f.kind = "file"})
        /\ uploadReport.failures = 0

\* the example tree against an empty root: folders a and a/b created, two
\* files uploaded
C19_Witness ==
    /\ run = 1 /\ pc = "done" /\ tree = ExampleTree /\ aborted = "no"
    /\ Cardinality({i \in remote : i.kind = "folder"}) = 2
    /\ Cardinality({i \in remote : i.kind = "file"}) = 2
    /\ Cardinality(remote) = 4
    /\ Cardinality({i \in 1 .. Len(log) : log[i].kind = "create"}) = 2
    /\ uploadReport.uploads = 2 /\ uploadReport.failures = 0
    /\ adopted = {} /\ faults = 0

\* C20: once an upload request has been sent, every prefix of every folder
\* path of the scan is in the folder map, and nothing that follows the first
\* upload request in the run is a create or a children request or an answer
\* to one.
C20_FoldersBeforeUploads ==
    \A i \in 1 .. Len(log) : log[i].kind = "upload" =>
        /\ \A k \in 1 .. Len(folders) : \A j \in 1 .. Len(folders[k].path) :
            keyOf(SubSeq(folders[k].path, 1, j)) \in DOMAIN folderMap
        /\ \A j \in i .. Len(log) :
            log[j].kind = "upload" \/ (log[j].kind = "answer" /\ log[j].to = "upload")

\* an upload request after one folder was adopted and another created
C20_Witness ==
    /\ inflight.kind = "upload" /\ Len(folders) >= 2
    /\ adopted # {} /\ Cardinality(DOMAIN folderMap) > Cardinality(adopted) + 1

\* C21: in a run every request is followed by its answer before the next
\* request is sent, a request is in flight exactly while the last exchange of
\* the run is a request without its answer, and no request is in flight
\* while the run sleeps for a backoff or for the delay between requests.
C21_OneRequestAtATime ==
    /\ \A i \in 1 .. Len(log) - 1 :
        log[i].kind # "answer" => (log[i + 1].kind = "answer" /\ log[i + 1].to = log[i].kind)
    /\ inflight # NoRequest <=> (Len(log) > 0 /\ log[Len(log)] = inflight)
    /\ (pc \in {"folderDelay", "uploadDelay"} \/ rpc = "sleep") => inflight = NoRequest

\* the backoff sleep of an upload, after a folder was created
C21_Witness ==
    /\ pc = "upload" /\ rpc = "sleep" /\ inflight = NoRequest
    /\ Len(log) >= 4 /\ log[Len(log)].kind = "answer" /\ log[Len(log)].to = "upload"

\* C22 as stated: when a run has ended, lockedFiles is the number of upload
\* requests answered 423 (each ends its file), and is at most failures.
C22_LockedFilesPerFile ==
    pc = "done" =>
        /\ uploadReport.lockedFiles
            = Cardinality({i \in 1 .. Len(log) :
                log[i].kind = "answer" /\ log[i].to = "upload" /\ log[i].status = 423})
        /\ uploadReport.lockedFiles <= uploadReport.failures

\* C23 as stated: the folder id of an upload request is the id the folder map
\* holds for the path of the file's folder.
C23_Original ==
    inflight.kind = "upload" =>
        inflight.folderId = folderMap[keyOf(Front(inflight.relative))]

\* C23: an upload request carries the root folder id and the file's path
\* below docsDir, not an id of the folder map; when that path leads through
\* folders of the drive, it ends at the folder whose id the folder map holds
\* for the file's folder.
C23_UploadByPathFromRoot ==
    inflight.kind = "upload" =>
        LET below == SubSeq(inflight.path, Len(DocsDir) + 1, Len(inflight.path))
            target == resolveFolder(remote, FolderId, Front(below))
        IN /\ inflight.path = files[fileIdx].path
           /\ inflight.folderId = FolderId
           /\ inflight.relative = <<"">> \o below
           /\ target.found => target.id = folderMap[keyOf(Front(below))]

\* the upload of a file of a subdirectory whose folder has an id of its own
C23_Witness ==
    /\ inflight.kind = "upload" /\ Len(inflight.relative) >= 3
    /\ inflight.folderId = FolderId
    /\ resolveFolder(remote, FolderId,
            Front(SubSeq(inflight.path, Len(DocsDir) + 1, Len(inflight.path)))).found
    /\ folderMap[keyOf(Front(inflight.relative))] # FolderId

\* C24: no output is set before a run ends; when it has ended, however it
\* ended, no request is in flight and each of upload_successes, upload_list,
\* upload_failures, upload_failed_list and upload_failed_locked has been set
\* once, to the value the report has at the end of the run.
C24_ReportAlwaysEmitted ==
    /\ pc # "done" => outputs = <<>>
    /\ pc = "done" =>
        LET at(name) == {i \in 1 .. Len(outputs) : outputs[i].name = name}
            is(name, value) ==
                Cardinality(at(name)) = 1 /\ \A i \in at(name) : outputs[i].value = value
        IN /\ inflight = NoRequest
           /\ is("upload_successes", uploadReport.uploads)
           /\ is("upload_list", uploadReport.uploadList)
           /\ is("upload_failures", uploadReport.failures)
           /\ is("upload_failed_list", uploadReport.failedList)
           /\ is("upload_failed_locked", uploadReport.lockedFiles)

\* a run that ended in folder creation on a locked children query
C24_Witness ==
    /\ pc = "done" /\ aborted = "folders" /\ uploadReport.lockedFiles = 1
    /\ Len(outputs) = 6 /\ outputs[6] = Output("upload_failed_locked", 1)

\* C25: when a run has ended, error_message has been set (once) unless the
\* source directory exists, its top level has entries, every directory of
\* the tree is in the folder map and every file of the tree has an upload
\* request that was answered OK; in that case it has not been set.
C25_ErrorMessageIffFailure ==
    pc = "done" =>
        LET uploaded(f) == \E i \in 1 .. Len(log) - 1 :
                /\ log[i].kind = "upload" /\ log[i].path = DocsDir \o f.path
                /\ log[i + 1].ok
            allWell ==
                /\ docsDirExists /\ tree # {}
                /\ \A d \in {e \in tree : e.kind = "dir"} : keyOf(d.path) \in DOMAIN folderMap
                /\ \A f \in {e \in tree : e.kind = "file"} : uploaded(f)
        IN /\ Cardinality(errorOutputs) <= 1
           /\ errorOutputs = {} <=> allWell

\* a run that went through with one file uploaded and one failed
C25_Witness ==
    /\ pc = "done" /\ aborted = "no"
    /\ uploadReport.uploads = 1 /\ uploadReport.failures = 1
    /\ Cardinality(errorOutputs) = 1
    /\ outputs[1] = Output("error_message", "Some uploads failed")

\* C26 as stated: when a run has ended, one of its outputs, other than the
\* uploaded count and list, the failure count and list, the locked count and
\* the error message, carries failedFolderCreations.
C26_FolderFailuresEmitted ==
    pc = "done" =>
        \E i \in 1 .. Len(outputs) :
            /\ outputs[i].name \notin {"error_message", "upload_successes", "upload_list",
                                       "upload_failures", "upload_failed_list",
                                       "upload_failed_locked"}
            /\ outputs[i].value = uploadReport.failedFolderCreations

\* C27: with the source directory present, the scan fails exactly if the top
\* level has no entry, and then the run ends with no request sent, uploads
\* and failures 0 and an error message.  Otherwise the scan records every
\* directory of the tree, empty ones included, as a folder and every file as
\* a file, and nothing else: entries of another kind are left out.
C27_ScanFailsOnlyOnEmptyRoot ==
    (docsDirExists /\ pc # "start") =>
        LET dirs == {e \in tree : e.kind = "dir"}
            regular == {e \in tree : e.kind = "file"}
            paths(list) == {list[i].path : i \in 1 .. Len(list)}
        IN /\ aborted = "scan" <=> {e \in tree : Len(e.path) = 1} = {}
           /\ aborted = "scan" =>
                /\ pc = "done" /\ log = <<>> /\ errorOutputs # {}
                /\ uploadReport.uploads = 0 /\ uploadReport.failures = 0
           /\ aborted # "scan" =>
                /\ Len(sourceStructure.folders) = Cardinality(dirs)
                /\ paths(sourceStructure.folders) = {DocsDir \o e.path : e \in dirs}
                /\ Len(sourceStructure.files) = Cardinality(regular)
                /\ paths(sourceStructure.files) = {DocsDir \o e.path : e \in regular}

\* a tree of an empty directory and an entry that is neither file nor
\* directory: the scan records one folder and no file
C27_Witness ==
    /\ pc = "walk" /\ Len(sourceStructure.folders) = 1 /\ Len(sourceStructure.files) = 0
    /\ Cardinality(tree) = 2 /\ \E e \in tree : e.kind = "other"

\* C28: when the upload or the download executor runs with the configured
\* maxRetries and the environment gives a non-negative integer v, the
\* operation is invoked at most v + 1 times (for v = 0: once, never again).
\* Violated: v = 0 is replaced by the built-in 2 or 3.
C28_EnvGivesMaxRetries ==
    (exec \in {"upload", "download"} /\ ~env.passed /\ env.value.set) =>
        invocations <= env.value.n + 1

(***************************************************************************)
(* Properties of the AEM helper action (checked under SpecAem).            *)
(***************************************************************************)
\* C29: when the fetch-access-token operation has failed (the credentials
\* cannot be read, signing the JWT fails, or the token exchange fails), run
\* has set the output error_message.  Violated: the promise of
\* doFetchAccessToken is not awaited, so its rejection never reaches the
\* catch block of run.
C29_FailedFetchSetsErrorMessage ==
    (operation = AEM_HELPER_OPERATIONS.FETCH_ACCESS_TOKEN /\ aemPc = "done"
        /\ tokenPromise = "rejected")
        => \E i \in 1 .. Len(aemOutputs) : aemOutputs[i].name = "error_message"

\* C30: once doPreviewPublish or deletePreviewPublish has entered its loops
\* and the run is over, the outputs successes and failures are set, to the
\* counts of the report, and they add up to the number of operations
\* performed.  Violated: a failed live operation throws out of the loops.
C30_CountsAlwaysEmitted ==
    (aemPc = "done" /\ loopAt.action >= 1) =>
        /\ \E i \in 1 .. Len(aemOutputs) :
              aemOutputs[i] = Output("successes", pageReport.successes)
        /\ \E i \in 1 .. Len(aemOutputs) :
              aemOutputs[i] = Output("failures", pageReport.failures)
        /\ pageReport.successes + pageReport.failures
              = Len(actionsOf(operation)) * Len(input.pages)

\* C31: in sourceStructure.folders every directory below the top level stands
\* behind its parent directory, hence behind each of its ancestors; a remote
\* request is sent only after the scan; and from the first remote request of
\* a run on, that run changes neither sourceStructure.folders nor
\* sourceStructure.files.
C31_ScanPreorderBeforeRequests ==
    /\ [](LET list == sourceStructure.folders
              parentFirst(j) ==
                  Len(list[j].path) > Len(DocsDir) + 1 =>
                      \E i \in 1 .. j - 1 :
                          list[i].path = SubSeq(list[j].path, 1, Len(list[j].path) - 1)
              ancestorFirst(i, j) ==
                  (i # j /\ IsPrefix(list[i].path, list[j].path)) => i < j
          IN /\ \A j \in 1 .. Len(list) : parentFirst(j)
             /\ \A i \in 1 .. Len(list) : \A j \in 1 .. Len(list) : ancestorFirst(i, j)
             /\ (log = <<>> \/ pc \notin {"off", "start"}))
    /\ [][(log # <<>> /\ run' = run) => sourceStructure' = sourceStructure]_vars

\* the folders a and a/b were scanned in this order and requests were sent
C31_Witness ==
    /\ log # <<>> /\ pc = "upload"
    /\ \E i, j \in 1 .. Len(sourceStructure.folders) :
          /\ i < j
          /\ sourceStructure.folders[j].path = Append(sourceStructure.folders[i].path, "b")

\* C32: upload requests follow the order of the scanned file list.  The files
\* recorded so far are the first files of that list, each on exactly one of
\* uploadList (by relative path) and failedList (by absolute path), both
\* lists keep the order of the file list, and when a run ends without an
\* abort every scanned file is recorded.
C32_ListsFollowScanOrder ==
    LET ups == uploadReport.uploadList
        fails == uploadReport.failedList
        recorded == Len(ups) + Len(fails)
        uploaded(i) == \E a \in 1 .. Len(ups) : ups[a] = files[i].relative
        failed(i) == \E a \in 1 .. Len(fails) : fails[a] = files[i].path
        requests == {k \in 1 .. Len(log) : log[k].kind = "upload"}
    IN /\ recorded <= Len(files)
       /\ \A i \in 1 .. Len(files) :
             IF i <= recorded THEN uploaded(i) # failed(i)
             ELSE ~uploaded(i) /\ ~failed(i)
       /\ \A a \in 1 .. Len(ups) : \A b \in 1 .. Len(ups) :
             a < b => \E i \in 1 .. Len(files) : \E j \in 1 .. Len(files) :
                        i < j /\ files[i].relative = ups[a] /\ files[j].relative = ups[b]
       /\ \A a \in 1 .. Len(fails) : \A b \in 1 .. Len(fails) :
             a < b => \E i \in 1 .. Len(files) : \E j \in 1 .. Len(files) :
                        i < j /\ files[i].path = fails[a] /\ files[j].path = fails[b]
       /\ \A k \in requests : \A l \in requests :
             k < l => \E i \in 1 .. Len(files) : \E j \in 1 .. Len(files) :
                        i <= j /\ files[i].path = log[k].path /\ files[j].path = log[l].path
       /\ (pc = "done" /\ aborted = "no") => recorded = Len(files)

\* a finished run with a file on each list
C32_Witness ==
    /\ pc = "done" /\ aborted = "no"
    /\ Len(uploadReport.uploadList) >= 1 /\ Len(uploadReport.failedList) >= 1

\* C33: every upload request carries a read stream of its own: the streams
\* opened so far are as many as the upload requests sent, the request sent
\* last carries the stream opened last, and no two requests carry the same
\* stream; so for every file the streams are as many as the attempts.
C33_FreshStreamPerAttempt ==
    LET requests == {k \in 1 .. Len(log) : log[k].kind = "upload"}
    IN /\ streams = Cardinality(requests)
       /\ \A k \in requests : \A l \in requests : k # l => log[k].body # log[l].body
       /\ \A i \in 1 .. Len(files) :
             Cardinality({log[k].body : k \in {r \in requests : log[r].path = files[i].path}})
                = Cardinality({r \in requests : log[r].path = files[i].path})

\* a file whose upload was attempted three times
C33_Witness ==
    /\ pc = "uploadDelay" /\ attempt = 2
    /\ Cardinality({k \in 1 .. Len(log) :
                      log[k].kind = "upload" /\ log[k].path = files[fileIdx].path}) = 3

\* C34: every id in the folder map is the id of a folder of the remote
\* drive.  Violated: the one item the children query lists after a conflict
\* is adopted whatever its kind.
C34_FolderMapHoldsFolders ==
    \A key \in DOMAIN folderMap : isFolder(remote, folderMap[key])

(***************************************************************************)
(* A second call of run in the same process (checked under                 *)
(* SpecSameProcess).                                                       *)
(***************************************************************************)
\* C35: a second call of run starts from an empty folder list, an empty file
\* list and an all-zero report, and after its scan the lists hold the
\* directories and files of the tree once each.  Violated: the lists and the
\* report of the first run are still there.
C35_SecondRunStartsFresh ==
    run = 2 =>
        /\ pc = "start" =>
              /\ sourceStructure = newSourceStructure
              /\ uploadReport = newUploadReport
        /\ pc # "start" =>
              /\ Len(sourceStructure.folders) = Cardinality({e \in tree : e.kind = "dir"})
              /\ Len(sourceStructure.files) = Cardinality({e \in tree : e.kind = "file"})
              /\ uploadReport.uploads <= Cardinality({e \in tree : e.kind = "file"})

(***************************************************************************)
(* Properties of the AEM helper action, continued (checked under SpecAem). *)
(***************************************************************************)
\* C36: every request sent for deletePreviewAndPublish is a DELETE, and it
\* carries the access token if there is one.  Violated: the retry without
\* extension passes neither the token nor the method on.
C36_DeleteRetryKeepsMethodAndToken ==
    operation = AEM_HELPER_OPERATIONS.DELETE_PREVIEW_AND_PUBLISH =>
        \A k \in 1 .. Len(aemLog) :
            /\ aemLog[k].method = HTTP_METHODS.DELETE
            /\ aemLog[k].authorized = (accessToken # "")

(***************************************************************************)
(* Properties of the upload action, continued (checked under Spec).        *)
(***************************************************************************)
\* C37: in every state uploads is the length of uploadList and failures the
\* length of failedList, and no step of a run lowers one of the counters
\* uploads, failures, failedFolderCreations, lockedFiles.
C37_CountersMatchListsAndGrow ==
    /\ [](/\ uploadReport.uploads = Len(uploadReport.uploadList)
          /\ uploadReport.failures = Len(uploadReport.failedList))
    /\ [][run' = run =>
            /\ uploadReport'.uploads >= uploadReport.uploads
            /\ uploadReport'.failures >= uploadReport.failures
            /\ uploadReport'.failedFolderCreations >= uploadReport.failedFolderCreations
            /\ uploadReport'.lockedFiles >= uploadReport.lockedFiles]_vars

\* a finished run with an uploaded file and a file that failed locked
C37_Witness ==
    /\ pc = "done" /\ uploadReport.uploads = 1 /\ uploadReport.failures = 1
    /\ uploadReport.lockedFiles = 1

\* C38: within a run no two create-folder requests are for the same path
\* prefix; no step of a run removes a key of the folder map or changes the id
\* cached for it; and from the scan on the empty path maps to the root folder.
C38_OneCreatePerPrefix ==
    /\ [](/\ \A k \in 1 .. Len(log) : \A l \in 1 .. Len(log) :
                (k < l /\ log[k].kind = "create" /\ log[l].kind = "create")
                    => log[k].key # log[l].key
          /\ (pc \in {"off", "start"} \/ aborted = "scan" \/ folderMap[""] = FolderId))
    /\ [][run' = run =>
            \A key \in DOMAIN folderMap :
                key \in DOMAIN folderMap' /\ folderMap'[key] = folderMap[key]]_vars

\* the folders a and a/b: a is created once and found in the cache for a/b
C38_Witness ==
    /\ pc = "upload" /\ Cardinality(DOMAIN folderMap) = 3
    /\ Len(folders) = 2 /\ Len(folders[2].path) = 3
    /\ Cardinality({k \in 1 .. Len(log) : log[k].kind = "create"}) = 2

(***************************************************************************)
(* Properties of the retry executors, continued (checked under SpecRetry). *)
(***************************************************************************)
\* C39: while an executor sleeps or is about to invoke the operation, it has
\* slept as often as it has invoked the operation; once it has returned or
\* thrown after at least one attempt, it has slept once less than that: no
\* sleep follows the final attempt.  With maxRetries N >= 0 it never sleeps
\* more than N times.
C39_SleepsOnlyBetweenAttempts ==
    /\ rpc \in {"call", "sleep"} => sleeps = invocations
    /\ (Terminated /\ invocations >= 1) => sleeps = invocations - 1
    /\ maxRetries >= 0 => sleeps <= maxRetries

\* the HTTP executor returns the response of its third attempt after two sleeps
C39_Witness ==
    /\ exec = "http" /\ rpc = "returned" /\ maxRetries = 2
    /\ invocations = 3 /\ sleeps = 2 /\ lastOutcome.kind = "response"

====
